---------------------------- MODULE Spec2Model ----------------------------
(***************************************************************************)
(* A model of the placement core of sukima-type and of its callers:        *)
(*   src/src/convexHull.ts       ConvexHull (Andrew's monotone chain)      *)
(*   src/src/svgNestGeometry.ts  SVGNestGeometry (polygon collision)       *)
(*   src/src/nestingAlgorithm.ts NestingAlgorithm (placement search)       *)
(*   src/src/svgPathAnalyzer.ts  SVGPathAnalyzer (glyph shapes)            *)
(*   src/src/main.ts             TypographicNestingApp (input handlers)    *)
(*   src/src/typographicRenderer.ts  TypographicRenderer (what is shown)   *)
(*   src/src/layoutWorker.ts     the layout worker's message handler       *)
(*   src/unnamed/part_001        InputManager (IME and keyboard events)    *)
(*                                                                         *)
(* Numbers.  The source computes in IEEE doubles.  Polygon coordinates are *)
(* modelled as integers (whole pixels: the edge tracer emits integer pixel *)
(* coordinates), so the tolerances 1e-9 and 1e-10 of the source coincide   *)
(* with equality, and a quotient is compared by cross-multiplication.      *)
(* Positions, scales and scores of placements are fixed-point numbers in   *)
(* units of 1/Unit pixel; Unit is chosen so that the midpoints of the      *)
(* binary search, the width ratio 0.7 and the products with the cosines    *)
(* (three decimals) are exact.  A transformed polygon is rounded to whole  *)
(* pixels before it is expanded and intersected.                           *)
(***************************************************************************)
EXTENDS Integers, Sequences, FiniteSets, TLC

VARIABLES
    hullInput,      \* the points handed to calculateConvexHull
    hullOutput,     \* what calculateConvexHull returned, or NotYet
    polyA, polyB,   \* the polygons handed to intersect
    offA, offB,     \* their offsets (Aoffsetx, Aoffsety), (Boffsetx, Boffsety)
    isectAB,        \* intersect(A, B, offA, offB), or NotYet
    isectBA,        \* intersect(B, A, offB, offA), or NotYet
    pip,            \* the last pointInPolygon(point, A, offA) with its point,
                    \* or NotYet
    degenerate,     \* what the geometry operations returned for polygon A of
                    \* fewer than 3 points (and polygon B), or NotYet
    roundTrip,      \* the last transformPolygon round trip of polygon A: the
                    \* transform, the transformed polygon and the polygon
                    \* transformed back, or NotYet
    viewportWidth,  \* NestingAlgorithm.viewportWidth, in pixels
    viewportHeight, \* NestingAlgorithm.viewportHeight, in pixels
    characterShapeCache,  \* the keys of NestingAlgorithm.characterShapeCache
    call,           \* the running findBestPlacement: its arguments, the loop
                    \* counter i and bestPlacement; or Null
    returned,       \* the last return of calculateOptimalPlacement with the
                    \* arguments of the call, or NotYet
    recalc,         \* the running recalculateAllPlacements: its argument, its
                    \* composingChars, the loop position and result; or Null
    recalcReturned, \* the last return of recalculateAllPlacements with the
                    \* argument of the call and the placements it asked for,
                    \* or NotYet
    scaleCall,      \* the last return of calculateMaxScale with the arguments
                    \* of the call and the bracket it ended with, or NotYet
    collisionCall,  \* the last return of checkCollision with the arguments
                    \* of the call, or NotYet
    overlapCall,    \* the last return of charactersOverlap, for both orders
                    \* of its arguments, or NotYet
    isInitialized,  \* TypographicNestingApp.isInitialized
    innerWidth,     \* window.innerWidth, in pixels
    innerHeight,    \* window.innerHeight, in pixels
    now,            \* Date.now()
    created,        \* the number of character ids made so far
    charactersMap,  \* TypographicNestingApp.characters, in insertion order
    pendingCalculations,
                    \* TypographicNestingApp.pendingCalculations
    continuations,  \* the calculateLayout calls suspended at their await, in
                    \* the order in which they resume: the character id and
                    \* the placement awaited
    rendered,       \* the characters TypographicRenderer shows, with the
                    \* pose each is shown at
    layoutCalls,    \* the calculateLayout calls of the last step
    applications,   \* the applyLayoutResult calls of the last step
    compositionState,
                    \* InputManager.compositionState
    imeComposing,   \* the browser has a composition session open: between
                    \* a compositionstart and its compositionend
    escaped,        \* Escape was pressed in the open composition session
    lastEvent,      \* the last event InputManager was sent: its data, whether
                    \* the application was initialized and InputManager
                    \* composing when it came, and what its listener did
    nestingAlgorithm,
                    \* layoutWorker.ts: the worker's nestingAlgorithm, with its
                    \* viewport and shape cache, or Null
    served          \* the messages the worker has handled, each with the
                    \* step that threw, if any, the glyphs whose shape was
                    \* analysed, and the messages posted back

hullVars == <<hullInput, hullOutput>>

isectVars == <<polyA, polyB, offA, offB, isectAB, isectBA, pip, roundTrip,
               degenerate>>

placeVars == <<viewportWidth, viewportHeight, characterShapeCache, call,
               returned, recalc, recalcReturned, scaleCall,
                   collisionCall, overlapCall>>

appVars == <<isInitialized, innerWidth, innerHeight, now, created, charactersMap,
             pendingCalculations, continuations, rendered, layoutCalls,
             applications>>
workerVars == <<nestingAlgorithm, served>>

inputVars == <<compositionState, imeComposing, escaped, lastEvent>>

vars == <<hullVars, isectVars, placeVars, appVars, workerVars, inputVars>>

\* A nullable value is a sequence of at most one element: Null is the source's
\* null, Some(v) a value.  A result variable holds NotYet until the call returns.
Null == <<>>

Some(v) == <<v>>

NotYet == <<>>

\* A const of the source: In applied to the value of v, which is evaluated
\* once, however often In uses it.
With(v, In(_)) == CHOOSE r \in {In(w) : w \in {v}} : TRUE

\* The array with the elements f[1], ..., f[n], each evaluated once.
Array(f, n) == SubSeq(f, 1, n)

Pt(px, py) == [x |-> px, y |-> py]

\* The polygon with the given <<x, y>> pairs as vertices.
Poly(coords) == [k \in 1..Len(coords) |-> Pt(coords[k][1], coords[k][2])]

Abs(a) == IF a < 0 THEN 0 - a ELSE a

Max2(a, b) == IF a > b THEN a ELSE b

Min2(a, b) == IF a < b THEN a ELSE b

(***************************************************************************)
(*                        convexHull.ts: ConvexHull                        *)
(***************************************************************************)

\* isLeft: > 0 for P2 left of the line through P0 and P1, = 0 on it, < 0 right.
IsLeft(P0, P1, P2) ==
    (P1.x - P0.x) * (P2.y - P0.y) - (P2.x - P0.x) * (P1.y - P0.y)

\* removeDuplicates: keeps the first of every group of points closer than
\* tolerance = 1e-10 in both coordinates; on integer coordinates |d| < 1e-10
\* is d = 0.
RECURSIVE RemoveDuplicatesFrom(_, _)
RemoveDuplicatesFrom(points, unique) ==
    IF points = <<>> THEN unique
    ELSE LET point == Head(points)
             isDuplicate == \E k \in 1..Len(unique) :
                               /\ Abs(unique[k].x - point.x) = 0
                               /\ Abs(unique[k].y - point.y) = 0
         IN  RemoveDuplicatesFrom(Tail(points),
                 IF isDuplicate THEN unique ELSE Append(unique, point))

RemoveDuplicates(points) == RemoveDuplicatesFrom(points, <<>>)

\* Array.prototype.sort with a comparator a.k - b.k is a stable sort by k
\* (ECMAScript 2019): an insertion after the last element that is not greater.
RECURSIVE InsertByX(_, _)
InsertByX(sorted, p) ==
    IF sorted = <<>> THEN <<p>>
    ELSE IF sorted[Len(sorted)].x - p.x <= 0 THEN Append(sorted, p)
    ELSE Append(InsertByX(SubSeq(sorted, 1, Len(sorted) - 1), p), sorted[Len(sorted)])

RECURSIVE InsertByY(_, _)
InsertByY(sorted, p) ==
    IF sorted = <<>> THEN <<p>>
    ELSE IF sorted[Len(sorted)].y - p.y <= 0 THEN Append(sorted, p)
    ELSE Append(InsertByY(SubSeq(sorted, 1, Len(sorted) - 1), p), sorted[Len(sorted)])

RECURSIVE SortPointX(_)
SortPointX(s) ==
    IF s = <<>> THEN <<>>
    ELSE InsertByX(SortPointX(SubSeq(s, 1, Len(s) - 1)), s[Len(s)])

RECURSIVE SortPointY(_)
SortPointY(s) ==
    IF s = <<>> THEN <<>>
    ELSE InsertByY(SortPointY(SubSeq(s, 1, Len(s) - 1)), s[Len(s)])

\* The inner while loops of chainHull2D: pop the stack top while the stack
\* holds more than `keep` points and p is not strictly left of its top edge.
RECURSIVE PopStack(_, _, _)
PopStack(H, p, keep) ==
    IF Len(H) > keep /\ ~(IsLeft(H[Len(H) - 1], H[Len(H)], p) > 0)
    THEN PopStack(SubSeq(H, 1, Len(H) - 1), p, keep)
    ELSE H

\* LowerHull with the sign of the skip test flipped: the points below the lower
\* line are ignored, instead of those above or on it.
RECURSIVE LowerHullSkipsBelow(_, _, _, _, _)
LowerHullSkipsBelow(P, i, minmin, maxmin, H) ==
    IF i > maxmin THEN H
    ELSE IF IsLeft(P[minmin], P[maxmin], P[i]) <= 0 /\ i < maxmin
    THEN LowerHullSkipsBelow(P, i + 1, minmin, maxmin, H)
    ELSE LowerHullSkipsBelow(P, i + 1, minmin, maxmin,
                             Append(PopStack(H, P[i], 1), P[i]))

\* The lower hull scan: i runs from minmax + 1 to maxmin (indices are 1-based
\* here, 0-based in the source).
RECURSIVE LowerHull(_, _, _, _, _)
LowerHull(P, i, minmin, maxmin, H) ==
    IF i > maxmin THEN H
    ELSE IF IsLeft(P[minmin], P[maxmin], P[i]) >= 0 /\ i < maxmin
    THEN LowerHull(P, i + 1, minmin, maxmin, H)
    ELSE LowerHull(P, i + 1, minmin, maxmin, Append(PopStack(H, P[i], 1), P[i]))

\* The upper hull scan: i runs from maxmin - 1 down to minmax; `returned`
\* records the early return of the special case P[i] = H[0].
RECURSIVE UpperHull(_, _, _, _, _, _)
UpperHull(P, i, minmax, maxmax, bot, H) ==
    IF i < minmax THEN [H |-> H, returned |-> FALSE]
    ELSE IF IsLeft(P[maxmax], P[minmax], P[i]) >= 0 /\ i > minmax
    THEN UpperHull(P, i - 1, minmax, maxmax, bot, H)
    ELSE LET popped == PopStack(H, P[i], bot)
         IN  IF P[i].x = popped[1].x /\ P[i].y = popped[1].y
             THEN [H |-> popped, returned |-> TRUE]
             ELSE UpperHull(P, i - 1, minmax, maxmax, bot, Append(popped, P[i]))

\* chainHull2D on points presorted by increasing x then y; returns H[0..top].
ChainHull2D(P) ==
    LET n == Len(P)
        minmin == 1
        xmin == P[1].x
        \* the last index of the leading run of points with x = xmin
        minmax == CHOOSE i \in 1..n :
                     /\ \A k \in 1..i : P[k].x = xmin
                     /\ (i = n \/ P[i + 1].x # xmin)
    IN  IF minmax = n
        THEN \* degenerate case: all x-coords = xmin
             <<P[minmin]>>
                 \o (IF P[minmax].y # P[minmin].y THEN <<P[minmax]>> ELSE <<>>)
                 \o <<P[minmin]>>
        ELSE LET maxmax == n
                 xmax == P[n].x
                 \* the first index of the trailing run of points with x = xmax
                 maxmin == CHOOSE i \in 1..n :
                              /\ \A k \in i..n : P[k].x = xmax
                              /\ (i = 1 \/ P[i - 1].x # xmax)
                 lower == LowerHull(P, minmax + 1, minmin, maxmin, <<P[minmin]>>)
                 joined == IF maxmax # maxmin THEN Append(lower, P[maxmax]) ELSE lower
                 upper == UpperHull(P, maxmin - 1, minmax, maxmax, Len(joined), joined)
             IN  IF upper.returned THEN upper.H
                 ELSE IF minmax # minmin THEN Append(upper.H, P[minmin])
                 ELSE upper.H

\* calculateConvexHull
CalculateConvexHull(points) ==
    IF Len(points) < 3 THEN points
    ELSE LET uniquePoints == RemoveDuplicates(points)
         IN  IF Len(uniquePoints) < 3 THEN uniquePoints
             ELSE ChainHull2D(SortPointX(SortPointY(uniquePoints)))

\* calculateHullArea: the sum of the loop from vertex i on.
RECURSIVE HullAreaFrom(_, _)
HullAreaFrom(hull, i) ==
    IF i > Len(hull) THEN 0
    ELSE LET j == (i % Len(hull)) + 1
         IN  hull[i].x * hull[j].y - hull[j].x * hull[i].y + HullAreaFrom(hull, i + 1)

\* calculateHullArea, in half square pixels (Math.abs(area) / 2 is the half of
\* what is given here).
CalculateHullArea(hull) ==
    IF Len(hull) < 3 THEN 0 ELSE Abs(HullAreaFrom(hull, 1))

(***************************************************************************)
(*                   svgNestGeometry.ts: SVGNestGeometry                   *)
(***************************************************************************)

\* almostEqual: |a - b| < TOL = 1e-9, which on integer coordinates is a = b.
AlmostEqual(a, b) == Abs(a - b) = 0

\* onSegment: p lies on the segment AB but not at its endpoints.
\* An onSegment that knows vertical and horizontal segments only.
OnSegmentAxisOnly(A, B, p) ==
    IF AlmostEqual(A.x, B.x) /\ AlmostEqual(p.x, A.x)
    THEN /\ p.y < Max2(B.y, A.y)
         /\ p.y > Min2(B.y, A.y)
    ELSE /\ AlmostEqual(A.y, B.y) /\ AlmostEqual(p.y, A.y)
         /\ p.x < Max2(B.x, A.x)
         /\ p.x > Min2(B.x, A.x)

OnSegment(A, B, p) ==
    IF AlmostEqual(A.x, B.x) /\ AlmostEqual(p.x, A.x)
    THEN \* vertical line
         /\ ~AlmostEqual(p.y, B.y)
         /\ ~AlmostEqual(p.y, A.y)
         /\ p.y < Max2(B.y, A.y)
         /\ p.y > Min2(B.y, A.y)
    ELSE IF AlmostEqual(A.y, B.y) /\ AlmostEqual(p.y, A.y)
    THEN \* horizontal line
         /\ ~AlmostEqual(p.x, B.x)
         /\ ~AlmostEqual(p.x, A.x)
         /\ p.x < Max2(B.x, A.x)
         /\ p.x > Min2(B.x, A.x)
    ELSE IF \/ (p.x < A.x /\ p.x < B.x) \/ (p.x > A.x /\ p.x > B.x)
            \/ (p.y < A.y /\ p.y < B.y) \/ (p.y > A.y /\ p.y > B.y)
    THEN FALSE  \* range check
    ELSE IF \/ (AlmostEqual(p.x, A.x) /\ AlmostEqual(p.y, A.y))
            \/ (AlmostEqual(p.x, B.x) /\ AlmostEqual(p.y, B.y))
    THEN FALSE  \* endpoints excluded
    ELSE LET cross == (p.y - A.y) * (B.x - A.x) - (p.x - A.x) * (B.y - A.y)
             dot == (p.x - A.x) * (B.x - A.x) + (p.y - A.y) * (B.y - A.y)
             len2 == (B.x - A.x) * (B.x - A.x) + (B.y - A.y) * (B.y - A.y)
         IN  /\ ~(Abs(cross) > 0)
             /\ ~(dot < 0 \/ AlmostEqual(dot, 0))
             /\ ~(dot > len2 \/ AlmostEqual(dot, len2))

\* num / den < v and num / den > v, for den # 0, by cross-multiplication.
QuotLess(num, den, v) == IF den > 0 THEN num < v * den ELSE num > v * den

QuotGreater(num, den, v) == IF den > 0 THEN num > v * den ELSE num < v * den

\* The range test of lineIntersect on one coordinate: the coordinate c = num / den
\* of the intersection lies outside the segment's range [p, q] (or [q, p]).
OutsideRange(num, den, p, q) ==
    /\ Abs(p - q) > 0
    /\ IF p < q
       THEN QuotLess(num, den, p) \/ QuotGreater(num, den, q)
       ELSE QuotGreater(num, den, p) \/ QuotLess(num, den, q)

\* lineIntersect: the intersection of the lines AB and EF as the quotients
\* (xnum / denom, ynum / denom), or Null; denom = 0 gives a non-finite x or y.
LineIntersect(A, B, E, F, infinite) ==
    LET a1 == B.y - A.y
        b1 == A.x - B.x
        c1 == B.x * A.y - A.x * B.y
        a2 == F.y - E.y
        b2 == E.x - F.x
        c2 == F.x * E.y - E.x * F.y
        denom == a1 * b2 - a2 * b1
        xnum == b1 * c2 - b2 * c1
        ynum == a2 * c1 - a1 * c2
    IN  IF denom = 0 THEN Null
        ELSE IF /\ ~infinite
                /\ \/ OutsideRange(xnum, denom, A.x, B.x)
                   \/ OutsideRange(ynum, denom, A.y, B.y)
                   \/ OutsideRange(xnum, denom, E.x, F.x)
                   \/ OutsideRange(ynum, denom, E.y, F.y)
        THEN Null
        ELSE Some([xnum |-> xnum, ynum |-> ynum, denom |-> denom])

\* getPolygonBounds
RECURSIVE BoundsFrom(_, _, _)
BoundsFrom(polygon, i, b) ==
    IF i > Len(polygon) THEN b
    ELSE LET p == polygon[i]
             bx == IF p.x > b.xmax THEN [b EXCEPT !.xmax = p.x]
                   ELSE IF p.x < b.xmin THEN [b EXCEPT !.xmin = p.x]
                   ELSE b
             by == IF p.y > b.ymax THEN [bx EXCEPT !.ymax = p.y]
                   ELSE IF p.y < b.ymin THEN [bx EXCEPT !.ymin = p.y]
                   ELSE bx
         IN  With(by, LAMBDA next : BoundsFrom(polygon, i + 1, next))

GetPolygonBounds(polygon) ==
    IF Len(polygon) < 3 THEN Null
    ELSE With(BoundsFrom(polygon, 2,
                  [xmin |-> polygon[1].x, xmax |-> polygon[1].x,
                   ymin |-> polygon[1].y, ymax |-> polygon[1].y]),
              LAMBDA b : Some([x |-> b.xmin, y |-> b.ymin,
                               width |-> b.xmax - b.xmin,
                               height |-> b.ymax - b.ymin]))

\* pointInPolygon: Some(TRUE), Some(FALSE), or Null for a point on a vertex or an edge
\* (and for a polygon of fewer than 3 points).  The scan runs i = 0..n-1 with
\* j the index before i (cyclically) and returns at the first vertex or edge hit.
RECURSIVE PointInPolygonFrom(_, _, _, _, _, _)
PointInPolygonFrom(point, polygon, offsetx, offsety, i, inside) ==
    IF i > Len(polygon) THEN Some(inside)
    ELSE LET j == IF i = 1 THEN Len(polygon) ELSE i - 1
             xi == polygon[i].x + offsetx
             yi == polygon[i].y + offsety
             xj == polygon[j].x + offsetx
             yj == polygon[j].y + offsety
         IN  IF AlmostEqual(xi, point.x) /\ AlmostEqual(yi, point.y) THEN Null
             ELSE IF OnSegment(Pt(xi, yi), Pt(xj, yj), point) THEN Null
             ELSE IF AlmostEqual(xi, xj) /\ AlmostEqual(yi, yj)
             THEN PointInPolygonFrom(point, polygon, offsetx, offsety, i + 1, inside)
             ELSE LET intersect ==
                          /\ (yi > point.y) # (yj > point.y)
                          \* point.x < (xj - xi) * (point.y - yi) / (yj - yi) + xi
                          /\ QuotGreater((xj - xi) * (point.y - yi), yj - yi,
                                         point.x - xi)
                  IN  PointInPolygonFrom(point, polygon, offsetx, offsety, i + 1,
                                         IF intersect THEN ~inside ELSE inside)

PointInPolygon(point, polygon, offsetx, offsety) ==
    IF Len(polygon) < 3 THEN Null
    ELSE PointInPolygonFrom(point, polygon, offsetx, offsety, 1, FALSE)

\* One pass of the body of intersect's double loop for the edges A[i]A[i+1]
\* and B[j]B[j+1]: TRUE when the body returns true.
EdgePairIntersects(A, B, i, j, Aoffsetx, Aoffsety, Boffsetx, Boffsety) ==
    LET a1 == Pt(A[i].x + Aoffsetx, A[i].y + Aoffsety)
        a2 == Pt(A[i + 1].x + Aoffsetx, A[i + 1].y + Aoffsety)
        b1 == Pt(B[j].x + Boffsetx, B[j].y + Boffsety)
        b2 == Pt(B[j + 1].x + Boffsetx, B[j + 1].y + Boffsety)
    IN  IF \/ OnSegment(a1, a2, b1)
           \/ (AlmostEqual(a1.x, b1.x) /\ AlmostEqual(a1.y, b1.y))
        THEN \* a touch: decided by the neighbours of b1 on B against polygon A
             LET prevbindex == IF j = 1 THEN Len(B) ELSE j - 1
                 b0 == Pt(B[prevbindex].x + Boffsetx, B[prevbindex].y + Boffsety)
                 b0in == PointInPolygon(b0, A, 0, 0)
                 b2in == PointInPolygon(b2, A, 0, 0)
             IN  \/ (b0in = Some(TRUE) /\ b2in = Some(FALSE))
                 \/ (b0in = Some(FALSE) /\ b2in = Some(TRUE))
        ELSE LineIntersect(b1, b2, a1, a2, FALSE) # Null

\* intersect: the double loop over i < A.length - 1 and j < B.length - 1
\* returns true at the first pass that does, and false when none does.
Intersect(A, B, Aoffsetx, Aoffsety, Boffsetx, Boffsety) ==
    \E i \in 1..(Len(A) - 1) : \E j \in 1..(Len(B) - 1) :
        EdgePairIntersects(A, B, i, j, Aoffsetx, Aoffsety, Boffsetx, Boffsety)

\* One pixel in fixed-point units: 2^10 * 5^4, so that ten halvings, a tenth
\* and a thousandth of a scale are exact.
Unit == (2 ^ 10) * (5 ^ 4)

\* n / d rounded to the nearest integer, d > 0.
RoundDiv(n, d) == (2 * n + d) \div (2 * d)

\* Math.sqrt, rounded down to an integer.
RECURSIVE SqrtBetween(_, _, _)
SqrtBetween(n, lo, hi) ==
    IF hi - lo <= 1 THEN lo
    ELSE LET mid == (lo + hi) \div 2
         IN  IF mid * mid <= n THEN SqrtBetween(n, mid, hi)
             ELSE SqrtBetween(n, lo, mid)

Sqrt(n) == SqrtBetween(n, 0, Min2(n, 46340) + 1)

\* Math.cos and Math.sin of a rotation in degrees, in thousandths; rotations
\* are multiples of 45 degrees.
CosMilli(degrees) ==
    LET d == degrees % 360
    IN  CASE d = 0 -> 1000
          [] d \in {45, 315} -> 707
          [] d \in {90, 270} -> 0
          [] d \in {135, 225} -> 0 - 707
          [] d = 180 -> 0 - 1000

SinMilli(degrees) == CosMilli(degrees + 270)

\* A rotatePolygon whose first row has the sign of sin wrong.
RotatePolygonMirrored(polygon, degrees) ==
    LET cos == CosMilli(degrees)
        sin == SinMilli(degrees)
    IN  Array([i \in 1..Len(polygon) |->
                  LET px == polygon[i].x \div 1000
                      py == polygon[i].y \div 1000
                  IN  Pt(px * cos + py * sin, px * sin + py * cos)],
              Len(polygon))

\* rotatePolygon, on coordinates in fixed-point units.
RotatePolygon(polygon, degrees) ==
    LET cos == CosMilli(degrees)
        sin == SinMilli(degrees)
    IN  Array([i \in 1..Len(polygon) |->
                  LET px == polygon[i].x \div 1000
                      py == polygon[i].y \div 1000
                  IN  Pt(px * cos - py * sin, px * sin + py * cos)],
              Len(polygon))

\* transformPolygon: scale, then rotate about the origin, then translate.  The
\* polygon is in pixels; transform.x, transform.y and the factor transform.scale
\* are fixed-point (a factor of 1 is Unit); the result is rounded to pixels.
TransformPolygon(polygon, transform) ==
    LET scaled == Array([i \in 1..Len(polygon) |->
                            Pt(polygon[i].x * transform.scale,
                               polygon[i].y * transform.scale)],
                        Len(polygon))
    IN  With(IF transform.rotation # 0
             THEN RotatePolygon(scaled, transform.rotation)
             ELSE scaled,
             LAMBDA rotated :
                 Array([i \in 1..Len(polygon) |->
                           Pt(RoundDiv(rotated[i].x + transform.x, Unit),
                              RoundDiv(rotated[i].y + transform.y, Unit))],
                       Len(polygon)))

\* expandPolygon: one vertex moved away from the centre (cx2 / 2, cy2 / 2) of
\* the bounding box by margin pixels.  The centre may be a half pixel, so the
\* differences are doubled: dx, dy and distance are twice the source's.
ExpandPoint(p, cx2, cy2, margin) ==
    LET dx == 2 * p.x - cx2
        dy == 2 * p.y - cy2
    IN  With(Sqrt(dx * dx + dy * dy),
             LAMBDA distance :
                 IF distance = 0 THEN p
                 ELSE Pt(p.x + RoundDiv(dx * margin, distance),
                         p.y + RoundDiv(dy * margin, distance)))

\* expandPolygon
ExpandPolygon(polygon, margin) ==
    IF margin <= 0 THEN polygon
    ELSE With(GetPolygonBounds(polygon),
              LAMBDA bounds :
                  IF bounds = Null THEN polygon
                  ELSE Array([i \in 1..Len(polygon) |->
                                 ExpandPoint(polygon[i],
                                             2 * bounds[1].x + bounds[1].width,
                                             2 * bounds[1].y + bounds[1].height,
                                             margin)],
                             Len(polygon)))

\* checkPolygonCollision
CheckPolygonCollision(poly1, transform1, poly2, transform2, margin) ==
    With(TransformPolygon(poly1, transform1), LAMBDA transformedPoly1 :
    With(TransformPolygon(poly2, transform2), LAMBDA transformedPoly2 :
    With(ExpandPolygon(transformedPoly1, margin), LAMBDA expandedPoly1 :
    With(ExpandPolygon(transformedPoly2, margin), LAMBDA expandedPoly2 :
        Intersect(expandedPoly1, expandedPoly2, 0, 0, 0, 0)))))

(***************************************************************************)
(*        svgPathAnalyzer.ts: the cached shape of a glyph (its hull)       *)
(***************************************************************************)

Glyphs == {"A", "B"}

\* edgeDetection: the outline traced from the raster of a glyph drawn with a
\* 100px font at (50, 200), sampled every 4 pixels from pixel 1.  The raster
\* is the canvas's; two outlines stand for it: a triangle ("A") and a box ("B").
EdgeDetection(char) ==
    IF char = "A"
    THEN Poly(<< <<85, 133>>, <<69, 165>>, <<101, 165>>,
                 <<53, 197>>, <<85, 197>>, <<117, 197>> >>)
    ELSE Poly(<< <<53, 133>>, <<77, 133>>, <<101, 133>>, <<101, 165>>,
                 <<101, 197>>, <<77, 197>>, <<53, 197>>, <<53, 165>> >>)

\* analyzeCharacterShape(char, 100).polygonApproximation for every glyph: the
\* convex hull of its outline.
GlyphShapes ==
    [A |-> CalculateConvexHull(EdgeDetection("A")),
     B |-> CalculateConvexHull(EdgeDetection("B"))]

\* analyzeCharacterShape(char, 100)
AnalyzeCharacterShape(char) == [polygonApproximation |-> GlyphShapes[char]]

\* checkPathCollision
CheckPathCollision(shape1, transform1, shape2, transform2, margin) ==
    CheckPolygonCollision(shape1.polygonApproximation, transform1,
                          shape2.polygonApproximation, transform2, margin)

(***************************************************************************)
(*                nestingAlgorithm.ts: NestingAlgorithm                    *)
(***************************************************************************)

\* main.ts: the font metrics the application constructs the algorithm with
UnitsPerEm == 1000

Ascender == 800

Descender == -200

\* findBestPlacement: const attempts = 200 is modelled for MaxAttempts trials
MaxAttempts == 2

RotationSteps == 8

\* findBestPlacement: the scale of the initial bestPlacement (and `low` of
\* calculateMaxScale)
InitialScale == 10

\* findBestPlacement: "Ensure minimum scale"
MinimumScale == 15

\* calculateMaxScale: for (let i = 0; i < 15; i++)
MaxIterations == 15

\* calculateMaxScale: if (high - low < 2) break
BracketWidth == 2

\* checkCollision: const margin = 20
BoundaryMargin == 20

\* checkCollision: the margin handed to checkPathCollision
CollisionMargin == 5

\* getCharacterDimensions: width = scale * 0.7, height = scale * (ascender -
\* descender) / unitsPerEm
GetCharacterDimensions(scale) ==
    [width |-> (scale \div 10) * 7,
     height |-> (scale \div UnitsPerEm) * (Ascender - Descender)]

\* Math.min(viewportWidth, viewportHeight) * 0.8, the viewport in pixels
MaxPossibleScale(width, height) == Min2(width, height) * ((Unit * 8) \div 10)

\* A first placement that fills the smaller side of the viewport entirely.
PlaceFirstCharacterUnscaled(width, height) ==
    [x |-> (width * Unit) \div 2,
     y |-> (height * Unit) \div 2,
     rotation |-> 0,
     scale |-> Min2(width, height) * Unit,
     score |-> Unit]

\* placeFirstCharacter
PlaceFirstCharacter(width, height) ==
    [x |-> (width * Unit) \div 2,
     y |-> (height * Unit) \div 2,
     rotation |-> 0,
     scale |-> MaxPossibleScale(width, height),
     score |-> Unit]

\* A boundary check against the viewport itself, with no margin.
OutOfBoundsNoMargin(width, height, x, y, rotation, scale) ==
    LET charDimensions == GetCharacterDimensions(scale)
        cos == Abs(CosMilli(rotation))
        sin == Abs(SinMilli(rotation))
        rotatedWidth == (charDimensions.width \div 1000) * cos
                            + (charDimensions.height \div 1000) * sin
        rotatedHeight == (charDimensions.width \div 1000) * sin
                            + (charDimensions.height \div 1000) * cos
    IN  \/ 2 * x - rotatedWidth < 0
        \/ 2 * x + rotatedWidth > 2 * width * Unit
        \/ 2 * y - rotatedHeight < 0
        \/ 2 * y + rotatedHeight > 2 * height * Unit

\* checkCollision, lines 211-227: the rotation-aware bounding box of the
\* candidate leaves the viewport inset by the margin.  The comparisons are
\* doubled (x - rotatedWidth / 2 < margin is 2x - rotatedWidth < 2 margin).
OutOfBounds(width, height, x, y, rotation, scale) ==
    LET charDimensions == GetCharacterDimensions(scale)
        cos == Abs(CosMilli(rotation))
        sin == Abs(SinMilli(rotation))
        rotatedWidth == (charDimensions.width \div 1000) * cos
                            + (charDimensions.height \div 1000) * sin
        rotatedHeight == (charDimensions.width \div 1000) * sin
                            + (charDimensions.height \div 1000) * cos
        margin == BoundaryMargin * Unit
    IN  \/ 2 * x - rotatedWidth < 2 * margin
        \/ 2 * x + rotatedWidth > 2 * (width * Unit - margin)
        \/ 2 * y - rotatedHeight < 2 * margin
        \/ 2 * y + rotatedHeight > 2 * (height * Unit - margin)

\* checkCollision, lines 240-267: the loop over the existing characters from
\* the k-th on; every character reached has its shape looked up, and analysed
\* and cached when it is not in the cache.
RECURSIVE CollidesFrom(_, _, _, _, _)
CollidesFrom(cache, existingCharacters, k, newChar, newCharTransform) ==
    IF k > Len(existingCharacters) THEN [collision |-> FALSE, cache |-> cache]
    ELSE LET existingChar == existingCharacters[k]
             cached == cache \cup {existingChar.char}
             existingCharTransform ==
                 [x |-> existingChar.x, y |-> existingChar.y,
                  rotation |-> existingChar.rotation,
                  scale |-> existingChar.scale \div 100]
         IN  IF CheckPathCollision(AnalyzeCharacterShape(newChar), newCharTransform,
                                   AnalyzeCharacterShape(existingChar.char),
                                   existingCharTransform, CollisionMargin)
             THEN [collision |-> TRUE, cache |-> cached]
             ELSE CollidesFrom(cached, existingCharacters, k + 1, newChar,
                               newCharTransform)

\* checkCollision: the verdict and the shape cache it leaves.
CheckCollision(cache, width, height, existingCharacters, newChar, x, y, rotation, scale) ==
    IF OutOfBounds(width, height, x, y, rotation, scale)
    THEN [collision |-> TRUE, cache |-> cache]
    ELSE CollidesFrom(cache \cup {newChar}, existingCharacters, 1, newChar,
                      [x |-> x, y |-> y, rotation |-> rotation,
                       scale |-> scale \div 100])

\* sqrt(D) < S / den, for integers D >= 0, S >= 0 and 0 < den < 46340: with
\* S = q den + r it is (D - q^2) den - 2 q r < r^2 / den.
SqrtLess(D, S, den) ==
    LET q == S \div den
        r == S % den
        L == (D - q * q) * den - 2 * q * r
    IN  L < 0 \/ (L < den /\ den * L < r * r)

\* An effective radius taken from the smaller side of the rotated box.
GetEffectiveRadiusNarrow(dimensions, rotation) ==
    LET cos == Abs(CosMilli(rotation))
        sin == Abs(SinMilli(rotation))
        rotatedWidth == (dimensions.width \div 1000) * cos
                            + (dimensions.height \div 1000) * sin
        rotatedHeight == (dimensions.width \div 1000) * sin
                            + (dimensions.height \div 1000) * cos
    IN  Min2(rotatedWidth, rotatedHeight) \div 2

\* getEffectiveRadius: half the larger side of the rotated box.
GetEffectiveRadius(dimensions, rotation) ==
    LET cos == Abs(CosMilli(rotation))
        sin == Abs(SinMilli(rotation))
        rotatedWidth == (dimensions.width \div 1000) * cos
                            + (dimensions.height \div 1000) * sin
        rotatedHeight == (dimensions.width \div 1000) * sin
                            + (dimensions.height \div 1000) * cos
    IN  Max2(rotatedWidth, rotatedHeight) \div 2

\* charactersOverlap: distance < (char1Radius + char2Radius) * 0.9.  The
\* centres are whole pixels, so dx and dy are taken in pixels; the radii are
\* multiples of Unit / 2000, and the comparison is made in those units:
\* distance < 9 (char1Radius + char2Radius) / (10 Unit) pixels.
CharactersOverlap(char1, char2) ==
    LET char1Dims == GetCharacterDimensions(char1.scale)
        char2Dims == GetCharacterDimensions(char2.scale)
        dx == (char1.x - char2.x) \div Unit
        dy == (char1.y - char2.y) \div Unit
        char1Radius == GetEffectiveRadius(char1Dims, char1.rotation)
        char2Radius == GetEffectiveRadius(char2Dims, char2.rotation)
    IN  SqrtLess(dx * dx + dy * dy,
                 9 * ((char1Radius + char2Radius) \div (Unit \div 2000)),
                 20000)

\* One iteration of the calculateMaxScale loop, as it is kept in the trace of
\* the search: the bracket it started with, the midpoint it tested and what
\* checkCollision said of it.
Tested(st, mid, hasCollision) ==
    [low |-> st.low, high |-> st.high, mid |-> mid, hasCollision |-> hasCollision]

\* A calculateMaxScale loop that moves the wrong end of the bracket.
RECURSIVE BinarySearchInverted(_, _, _, _, _, _, _, _, _)
BinarySearchInverted(width, height, existingCharacters, newChar, x, y, rotation, i, st) ==
    IF ~(i < MaxIterations) THEN st
    ELSE With((st.low + st.high) \div 2, LAMBDA mid :
         With(CheckCollision(st.cache, width, height, existingCharacters,
                             newChar, x, y, rotation, mid), LAMBDA hasCollision :
         With(IF hasCollision.collision
              THEN [st EXCEPT !.low = mid, !.cache = hasCollision.cache,
                              !.iterations = i + 1,
                              !.trace = Append(@, Tested(st, mid, TRUE))]
              ELSE [st EXCEPT !.high = mid, !.maxScale = mid,
                              !.cache = hasCollision.cache,
                              !.iterations = i + 1,
                              !.trace = Append(@, Tested(st, mid, FALSE))],
              LAMBDA next :
             IF next.high - next.low < BracketWidth * Unit THEN next
             ELSE BinarySearchInverted(width, height, existingCharacters, newChar,
                                       x, y, rotation, i + 1, next))))

\* A calculateMaxScale loop that stops at a bracket ten times as wide.
RECURSIVE BinarySearchWide(_, _, _, _, _, _, _, _, _)
BinarySearchWide(width, height, existingCharacters, newChar, x, y, rotation, i, st) ==
    IF ~(i < MaxIterations) THEN st
    ELSE With((st.low + st.high) \div 2, LAMBDA mid :
         With(CheckCollision(st.cache, width, height, existingCharacters,
                             newChar, x, y, rotation, mid), LAMBDA hasCollision :
         With(IF hasCollision.collision
              THEN [st EXCEPT !.high = mid, !.cache = hasCollision.cache,
                              !.iterations = i + 1,
                              !.trace = Append(@, Tested(st, mid, TRUE))]
              ELSE [st EXCEPT !.low = mid, !.maxScale = mid,
                              !.cache = hasCollision.cache,
                              !.iterations = i + 1,
                              !.trace = Append(@, Tested(st, mid, FALSE))],
              LAMBDA next :
             IF next.high - next.low < 10 * BracketWidth * Unit THEN next
             ELSE BinarySearchWide(width, height, existingCharacters, newChar,
                                   x, y, rotation, i + 1, next))))

\* calculateMaxScale: the loop from iteration i on; st holds low, high,
\* maxScale, iterations and the shape cache.
RECURSIVE BinarySearch(_, _, _, _, _, _, _, _, _)
BinarySearch(width, height, existingCharacters, newChar, x, y, rotation, i, st) ==
    IF ~(i < MaxIterations) THEN st
    ELSE With((st.low + st.high) \div 2, LAMBDA mid :
         With(CheckCollision(st.cache, width, height, existingCharacters,
                             newChar, x, y, rotation, mid), LAMBDA hasCollision :
         With(IF hasCollision.collision
              THEN [st EXCEPT !.high = mid, !.cache = hasCollision.cache,
                              !.iterations = i + 1,
                              !.trace = Append(@, Tested(st, mid, TRUE))]
              ELSE [st EXCEPT !.low = mid, !.maxScale = mid,
                              !.cache = hasCollision.cache,
                              !.iterations = i + 1,
                              !.trace = Append(@, Tested(st, mid, FALSE))],
              LAMBDA next :
             IF next.high - next.low < BracketWidth * Unit THEN next
             ELSE BinarySearch(width, height, existingCharacters, newChar,
                               x, y, rotation, i + 1, next))))

\* A calculateMaxScale that hands back the upper end of the final bracket.
CalculateMaxScaleHigh(cache, width, height, existingCharacters, newChar, x, y, rotation) ==
    With(BinarySearch(width, height, existingCharacters, newChar, x, y,
                      rotation, 0,
                      [low |-> InitialScale * Unit,
                       high |-> MaxPossibleScale(width, height),
                       maxScale |-> 0,
                       iterations |-> 0,
                       trace |-> <<>>,
                       cache |-> cache]),
         LAMBDA st : [maxScale |-> st.high, iterations |-> st.iterations,
                      cache |-> st.cache])

\* calculateMaxScale: the maximum scale found and the shape cache it leaves.
CalculateMaxScale(cache, width, height, existingCharacters, newChar, x, y, rotation) ==
    With(BinarySearch(width, height, existingCharacters, newChar, x, y,
                      rotation, 0,
                      [low |-> InitialScale * Unit,
                       high |-> MaxPossibleScale(width, height),
                       maxScale |-> 0,
                       iterations |-> 0,
                       trace |-> <<>>,
                       cache |-> cache]),
         LAMBDA st : [maxScale |-> st.maxScale, iterations |-> st.iterations,
                      cache |-> st.cache])

\* findBestPlacement: the initial bestPlacement
DefaultPlacement(width, height) ==
    [x |-> (width * Unit) \div 2,
     y |-> (height * Unit) \div 2,
     rotation |-> 0,
     scale |-> InitialScale * Unit,
     score |-> 0]

\* A candidate scored as the first placement is, with 1.0.
CandidateUnitScore(x, y, rotation, maxScale) ==
    [x |-> x, y |-> y, rotation |-> rotation, scale |-> maxScale, score |-> Unit]

\* A candidate that turns the other way.
CandidateCounterRotated(x, y, rotation, maxScale) ==
    [x |-> x, y |-> y, rotation |-> 0 - rotation, scale |-> maxScale,
     score |-> maxScale]

\* findBestPlacement: the bestPlacement a candidate of scale maxScale becomes
Candidate(x, y, rotation, maxScale) ==
    [x |-> x, y |-> y, rotation |-> rotation, scale |-> maxScale, score |-> maxScale]

\* A findBestPlacement whose inner loop tries every second rotation step.
RECURSIVE RotationLoopSparse(_, _, _, _, _, _, _, _)
RotationLoopSparse(width, height, existingCharacters, newChar, x, y, r, st) ==
    IF ~(r < RotationSteps) THEN st
    ELSE With((r * 360) \div RotationSteps, LAMBDA rotation :
         With(CalculateMaxScale(st.cache, width, height, existingCharacters,
                                newChar, x, y, rotation), LAMBDA found :
         With([bestPlacement |-> IF found.maxScale > st.bestPlacement.scale
                                 THEN Candidate(x, y, rotation, found.maxScale)
                                 ELSE st.bestPlacement,
               evaluations |-> st.evaluations + 1,
               iterations |-> Max2(st.iterations, found.iterations),
               candidates |-> Append(st.candidates,
                                     Candidate(x, y, rotation, found.maxScale)),
               cache |-> found.cache], LAMBDA next :
             RotationLoopSparse(width, height, existingCharacters, newChar, x, y,
                                r + 2, next))))

\* A findBestPlacement that takes a candidate as good as the best one so far.
RECURSIVE RotationLoopLatest(_, _, _, _, _, _, _, _)
RotationLoopLatest(width, height, existingCharacters, newChar, x, y, r, st) ==
    IF ~(r < RotationSteps) THEN st
    ELSE With((r * 360) \div RotationSteps, LAMBDA rotation :
         With(CalculateMaxScale(st.cache, width, height, existingCharacters,
                                newChar, x, y, rotation), LAMBDA found :
         With([bestPlacement |-> IF found.maxScale >= st.bestPlacement.scale
                                 THEN Candidate(x, y, rotation, found.maxScale)
                                 ELSE st.bestPlacement,
               evaluations |-> st.evaluations + 1,
               iterations |-> Max2(st.iterations, found.iterations),
               candidates |-> Append(st.candidates,
                                     Candidate(x, y, rotation, found.maxScale)),
               cache |-> found.cache], LAMBDA next :
             RotationLoopLatest(width, height, existingCharacters, newChar, x, y,
                                r + 1, next))))

\* findBestPlacement: the inner loop over the rotation steps r.. for one random
\* position; st holds bestPlacement, the shape cache, the number of
\* calculateMaxScale calls so far, the most iterations one of them ran, and
\* the candidates evaluated so far with their maximum scales, in order.
RECURSIVE RotationLoop(_, _, _, _, _, _, _, _)
RotationLoop(width, height, existingCharacters, newChar, x, y, r, st) ==
    IF ~(r < RotationSteps) THEN st
    ELSE With((r * 360) \div RotationSteps, LAMBDA rotation :
         With(CalculateMaxScale(st.cache, width, height, existingCharacters,
                                newChar, x, y, rotation), LAMBDA found :
         With([bestPlacement |-> IF found.maxScale > st.bestPlacement.scale
                                 THEN Candidate(x, y, rotation, found.maxScale)
                                 ELSE st.bestPlacement,
               evaluations |-> st.evaluations + 1,
               iterations |-> Max2(st.iterations, found.iterations),
               candidates |-> Append(st.candidates,
                                     Candidate(x, y, rotation, found.maxScale)),
               cache |-> found.cache], LAMBDA next :
             RotationLoop(width, height, existingCharacters, newChar, x, y,
                          r + 1, next))))

\* A findBestPlacement that hands bestPlacement back as the search left it.
KeepScale(bestPlacement) == bestPlacement

\* findBestPlacement: "Ensure minimum scale"
EnsureMinimumScale(bestPlacement) ==
    IF bestPlacement.scale < MinimumScale * Unit
    THEN [bestPlacement EXCEPT !.scale = MinimumScale * Unit]
    ELSE bestPlacement

(***************************************************************************)
(*          calculateConvexHull applied to bounded point arrays            *)
(***************************************************************************)

MaxPts == 4

HullCoords == 0..2

HullPoints == {Pt(px, py) : px \in HullCoords, py \in HullCoords}

\* The point arrays of 3 to MaxPts points.
HullInputs == UNION {[1..n -> HullPoints] : n \in 3..MaxPts}

HullParked == hullInput = <<>> /\ hullOutput = NotYet

HullInit == hullInput \in HullInputs /\ hullOutput = NotYet

ComputeHull ==
    /\ hullInput # <<>>
    /\ hullOutput = NotYet
    /\ hullOutput' = Some(CalculateConvexHull(hullInput))
    /\ UNCHANGED <<inputVars, workerVars, appVars, hullInput, isectVars, placeVars>>

(***************************************************************************)
(*                 intersect applied to bounded polygons                   *)
(***************************************************************************)

MaxOffset == 2

IntersectPolygons ==
    { Poly(<< <<0, 2>>, <<4, 2>>, <<4, 6>>, <<0, 6>> >>),
      Poly(<< <<0, 2>>, <<4, 2>>, <<4, 6>>, <<0, 6>>, <<0, 2>> >>),
      Poly(<< <<2, 2>>, <<3, 0>>, <<1, 0>> >>),
      Poly(<< <<1, 0>>, <<2, 2>>, <<3, 0>>, <<1, 0>> >>),
      Poly(<< <<1, 3>>, <<3, 3>>, <<2, 5>> >>),
      Poly(<< <<3, 1>>, <<6, 1>>, <<6, 4>>, <<3, 4>>, <<3, 1>> >>),
      Poly(<< <<7, 7>>, <<9, 7>>, <<8, 9>>, <<7, 7>> >>),
      Poly(<< <<0, 3>>, <<2, 4>>, <<0, 5>> >>),
      CalculateConvexHull(Poly(<< <<0, 0>>, <<0, 2>>, <<2, 0>>, <<1, 1>> >>)) }

Offsets == {Pt(ox, oy) : ox \in 0..MaxOffset, oy \in 0..MaxOffset}

IsectParked ==
    /\ polyA = <<>> /\ polyB = <<>>
    /\ offA = Pt(0, 0) /\ offB = Pt(0, 0)
    /\ isectAB = NotYet /\ isectBA = NotYet
    /\ pip = NotYet /\ roundTrip = NotYet /\ degenerate = NotYet

IsectInit ==
    /\ polyA \in IntersectPolygons
    /\ polyB \in IntersectPolygons
    /\ offA \in Offsets
    /\ offB \in Offsets
    /\ isectAB = NotYet
    /\ isectBA = NotYet
    /\ pip = NotYet /\ roundTrip = NotYet /\ degenerate = NotYet

IntersectAB ==
    /\ polyA # <<>>
    /\ isectAB = NotYet
    /\ isectAB' = Some(Intersect(polyA, polyB, offA.x, offA.y, offB.x, offB.y))
    /\ UNCHANGED <<inputVars, workerVars, appVars, hullVars, polyA, polyB, offA, offB, isectBA, pip, roundTrip,
                   degenerate, placeVars>>

IntersectBA ==
    /\ polyA # <<>>
    /\ isectBA = NotYet
    /\ isectBA' = Some(Intersect(polyB, polyA, offB.x, offB.y, offA.x, offA.y))
    /\ UNCHANGED <<inputVars, workerVars, appVars, hullVars, polyA, polyB, offA, offB, isectAB, pip, roundTrip,
                   degenerate, placeVars>>

(***************************************************************************)
(*              pointInPolygon applied to bounded polygons                 *)
(***************************************************************************)

\* The polygons handed to pointInPolygon: those handed to intersect, and hulls
\* as calculateConvexHull returns them (open, and closed by a repeated vertex).
PointPolygons ==
    IntersectPolygons
        \cup { CalculateConvexHull(Poly(<< <<1, 1>>, <<4, 2>>, <<5, 5>>, <<2, 4>>, <<3, 3>> >>)),
               CalculateConvexHull(Poly(<< <<0, 0>>, <<0, 4>>, <<4, 0>>, <<4, 4>>, <<2, 2>> >>)) }

\* The points handed to pointInPolygon.
PointCoords == 0..8

PointInit ==
    /\ polyA \in PointPolygons
    /\ offA \in Offsets
    /\ polyB = <<>> /\ offB = Pt(0, 0)
    /\ isectAB = NotYet /\ isectBA = NotYet
    /\ pip = NotYet /\ roundTrip = NotYet /\ degenerate = NotYet

\* A client calls pointInPolygon(point, A, offA.x, offA.y).
PointInPolygonCall ==
    /\ polyA # <<>>
    /\ \E px \in PointCoords : \E py \in PointCoords :
          pip' = Some([point |-> Pt(px, py),
                       result |-> PointInPolygon(Pt(px, py), polyA, offA.x, offA.y)])
    /\ UNCHANGED <<inputVars, workerVars, appVars, hullVars, polyA, polyB, offA, offB, isectAB, isectBA,
                   roundTrip, degenerate, placeVars>>

(***************************************************************************)
(*      transformPolygon applied forth and back to bounded polygons        *)
(***************************************************************************)

\* The polygons handed to transformPolygon; their coordinates are even, so
\* that halving them gives whole pixels.
TransformPolygons ==
    { Poly(<< <<0, 0>>, <<4, 0>>, <<4, 2>> >>),
      Poly(<< <<2, 2>>, <<6, 2>>, <<6, 6>>, <<2, 6>> >>),
      Poly(<< <<0, 0>>, <<8, 0>>, <<4, 6>>, <<0, 0>> >>),
      Poly(<< <<2, 0>>, <<4, 2>>, <<2, 4>>, <<0, 2>>, <<2, 2>> >>) }

\* The translations, in pixels (both coordinates even), the rotations, in
\* degrees, and the scales, as fractions <<numerator, denominator>>.
MaxShift == 2
Shifts == {2 * k - 2 : k \in 0..MaxShift}
QuarterTurns == {0, 90, 180, 270}
ScaleFractions == {<<1, 2>>, <<1, 1>>, <<2, 1>>}

Transform(tx, ty, rotation, num, den) ==
    [x |-> tx * Unit, y |-> ty * Unit, rotation |-> rotation,
     scale |-> (num * Unit) \div den]

TransformInit ==
    /\ polyA \in TransformPolygons
    /\ offA = Pt(0, 0)
    /\ polyB = <<>> /\ offB = Pt(0, 0)
    /\ isectAB = NotYet /\ isectBA = NotYet
    /\ pip = NotYet /\ roundTrip = NotYet /\ degenerate = NotYet

\* transformPolygon(A, transform), and then transformPolygon of the result
\* with {-x, -y, -rotation, 1 / scale}.
TransformRoundTrip ==
    /\ polyA # <<>>
    /\ \E tx \in Shifts : \E ty \in Shifts : \E rotation \in QuarterTurns :
       \E fraction \in ScaleFractions :
       \E forth \in {TransformPolygon(polyA, Transform(tx, ty, rotation,
                                                       fraction[1], fraction[2]))} :
          roundTrip' = Some([transform |-> Transform(tx, ty, rotation,
                                                     fraction[1], fraction[2]),
                             forth |-> forth,
                             back |-> TransformPolygon(forth,
                                          Transform(0 - tx, 0 - ty, 0 - rotation,
                                                    fraction[2], fraction[1]))])
    /\ UNCHANGED <<inputVars, workerVars, appVars, hullVars, polyA, polyB, offA, offB, isectAB, isectBA, pip,
                   degenerate, placeVars>>

(***************************************************************************)
(*      The geometry operations applied to polygons of fewer than 3        *)
(*      points                                                             *)
(***************************************************************************)

\* The coordinates of the degenerate polygons, in pixels.
DegenerateCoords == 0..2

DegeneratePoints == {Pt(px, py) : px \in DegenerateCoords, py \in DegenerateCoords}

\* The polygons of 0, 1 and 2 points.
DegeneratePolygons == UNION {[1..n -> DegeneratePoints] : n \in 0..2}

\* The polygons a degenerate polygon is intersected with: a segment and two
\* triangles.
DegenerateOthers ==
    { Poly(<< <<1, 0>>, <<1, 2>> >>),
      Poly(<< <<1, 0>>, <<1, 2>>, <<3, 1>> >>),
      Poly(<< <<5, 5>>, <<7, 5>>, <<6, 7>> >>) }

DegenerateInit ==
    /\ polyA \in DegeneratePolygons
    /\ polyB \in DegenerateOthers
    /\ offA = Pt(0, 0) /\ offB = Pt(0, 0)
    /\ isectAB = NotYet /\ isectBA = NotYet
    /\ pip = NotYet /\ roundTrip = NotYet /\ degenerate = NotYet

\* A client calls getPolygonBounds(A), pointInPolygon(point, A), intersect(A, B),
\* intersect(B, A), checkPolygonCollision(A, t, B, t) with the default margin
\* of 2 and no transformation, calculateConvexHull(A) and calculateHullArea(A).
DegenerateCalls ==
    /\ degenerate = NotYet
    /\ Len(polyA) < 3 /\ polyB # <<>>
    /\ \E point \in DegeneratePoints :
          degenerate' =
              Some([point |-> point,
                    getPolygonBounds |-> GetPolygonBounds(polyA),
                    pointInPolygon |-> PointInPolygon(point, polyA, 0, 0),
                    intersect |-> Intersect(polyA, polyB, 0, 0, 0, 0),
                    intersectBA |-> Intersect(polyB, polyA, 0, 0, 0, 0),
                    checkPolygonCollision |->
                        CheckPolygonCollision(polyA, Transform(0, 0, 0, 1, 1),
                                              polyB, Transform(0, 0, 0, 1, 1), 2),
                    calculateConvexHull |-> CalculateConvexHull(polyA),
                    calculateHullArea |-> CalculateHullArea(polyA)])
    /\ UNCHANGED <<inputVars, workerVars, appVars, hullVars, polyA, polyB, offA, offB, isectAB,
                   isectBA, pip, roundTrip, placeVars>>

(***************************************************************************)
(*    calculateOptimalPlacement and recalculateAllPlacements, as called    *)
(*    by a client of NestingAlgorithm                                      *)
(***************************************************************************)

\* The sizes the algorithm is constructed with: a wide and a tall viewport.
Viewports == {<<200, 160>>, <<160, 200>>}

\* Math.random() * viewportWidth, Math.random() * viewportHeight: the points a
\* trial may draw, in pixels; each lies in every viewport.
RandomPositions == {<<10, 10>>, <<25, 80>>, <<100, 80>>}

\* A Character with its pose given in pixels.
CharacterAt(id, char, px, py, rotation, scale, isComposing) ==
    [id |-> id, char |-> char, x |-> px * Unit, y |-> py * Unit,
     rotation |-> rotation, scale |-> scale * Unit, isComposing |-> isComposing]

\* The character lists the client hands over: none, a confirmed character, a
\* confirmed one followed by a composing one, two composing ones, and a
\* confirmed one between two composing ones.
CharacterLists ==
    { <<>>,
      << CharacterAt("c1", "B", 100, 80, 0, 128, FALSE) >>,
      << CharacterAt("c1", "B", 100, 80, 0, 128, FALSE),
         CharacterAt("c2", "A", 60, 60, 90, 50, TRUE) >>,
      << CharacterAt("c1", "A", 60, 60, 90, 50, TRUE),
         CharacterAt("c2", "B", 100, 80, 0, 128, TRUE) >>,
      << CharacterAt("c1", "A", 60, 60, 90, 50, TRUE),
         CharacterAt("c2", "B", 100, 80, 0, 128, FALSE),
         CharacterAt("c3", "A", 40, 120, 45, 30, TRUE) >> }

PlaceParked ==
    /\ viewportWidth = 0 /\ viewportHeight = 0
    /\ characterShapeCache = {}
    /\ call = Null /\ returned = NotYet
    /\ recalc = Null /\ recalcReturned = NotYet
    /\ scaleCall = NotYet /\ collisionCall = NotYet /\ overlapCall = NotYet

\* new NestingAlgorithm(viewportWidth, viewportHeight, fontMetrics)
PlaceInit ==
    /\ \E v \in Viewports : viewportWidth = v[1] /\ viewportHeight = v[2]
    /\ characterShapeCache = {}
    /\ call = Null /\ returned = NotYet
    /\ recalc = Null /\ recalcReturned = NotYet
    /\ scaleCall = NotYet /\ collisionCall = NotYet /\ overlapCall = NotYet

\* findBestPlacement up to its loop: the search starts with the initial
\* bestPlacement and i = 0.
StartSearch(existingCharacters, newChar) ==
    Some([existingCharacters |-> existingCharacters, newChar |-> newChar, i |-> 0,
          bestPlacement |-> DefaultPlacement(viewportWidth, viewportHeight),
          evaluations |-> 0, iterations |-> 0, candidates |-> <<>>])

\* What calculateOptimalPlacement hands back, kept with the call's arguments
\* and the number of random positions the call has tried.
Return(existingCharacters, newChar, placement, trials) ==
    [existingCharacters |-> existingCharacters, newChar |-> newChar,
     placement |-> placement, trials |-> trials]

\* A recalculateAllPlacements that keeps no character.
NoConfirmedChars(characters) == <<>>

\* recalculateAllPlacements: characters.filter(c => !c.isComposing)
ConfirmedChars(characters) == SelectSeq(characters, LAMBDA c : ~c.isComposing)

\* recalculateAllPlacements: characters.filter(c => c.isComposing)
ComposingChars(characters) == SelectSeq(characters, LAMBDA c : c.isComposing)

\* An updatedChar that keeps the pose the character came with.
UnchangedChar(char, placement) == char

\* recalculateAllPlacements: updatedChar
UpdatedChar(char, placement) ==
    [char EXCEPT !.x = placement.x, !.y = placement.y,
                 !.rotation = placement.rotation, !.scale = placement.scale]

\* A loop body that writes the placement into the character it was given:
\* the pose of that character changes in the argument as well.
PlacedInPlace(r, ret) ==
    LET char == r.composingChars[r.k]
        updatedChar == UpdatedChar(char, ret.placement)
    IN  [r EXCEPT !.k = r.k + 1,
                  !.result = Append(r.result, updatedChar),
                  !.calls = Append(r.calls, ret),
                  !.characters = [j \in 1..Len(r.characters) |->
                                     IF r.characters[j].id = char.id
                                     THEN updatedChar ELSE r.characters[j]]]

\* recalculateAllPlacements: the placement of composingChars[k] has returned;
\* the updated character is pushed on result and the loop moves on.
Placed(r, ret) ==
    [r EXCEPT !.k = r.k + 1,
              !.result = Append(r.result, UpdatedChar(r.composingChars[r.k], ret.placement)),
              !.calls = Append(r.calls, ret)]

\* A client calls calculateOptimalPlacement(existingCharacters, newChar): with
\* no existing character it returns the first placement, otherwise
\* findBestPlacement starts.
CalculateOptimalPlacement ==
    /\ viewportWidth > 0
    /\ call = Null /\ recalc = Null
    /\ \E existingCharacters \in CharacterLists : \E newChar \in Glyphs :
          IF Len(existingCharacters) = 0
          THEN /\ returned' = Some(Return(existingCharacters, newChar,
                        PlaceFirstCharacter(viewportWidth, viewportHeight), 0))
               /\ call' = Null
          ELSE /\ returned' = NotYet
               /\ call' = StartSearch(existingCharacters, newChar)
    /\ recalcReturned' = NotYet
    /\ UNCHANGED <<inputVars, workerVars, appVars, hullVars, isectVars, viewportWidth, viewportHeight,
                   characterShapeCache, recalc, scaleCall,
                   collisionCall, overlapCall>>

\* findBestPlacement: one pass of the loop over the attempts, a random
\* position tried at every rotation step.
SearchAttempt ==
    /\ call # Null
    /\ call[1].i < MaxAttempts
    /\ \E position \in RandomPositions :
          \E st \in {RotationLoop(viewportWidth, viewportHeight,
                        call[1].existingCharacters, call[1].newChar,
                        position[1] * Unit, position[2] * Unit, 0,
                        [bestPlacement |-> call[1].bestPlacement,
                         evaluations |-> call[1].evaluations,
                         iterations |-> call[1].iterations,
                         candidates |-> call[1].candidates,
                         cache |-> characterShapeCache])} :
              /\ call' = Some([call[1] EXCEPT !.i = call[1].i + 1,
                                              !.bestPlacement = st.bestPlacement,
                                              !.evaluations = st.evaluations,
                                              !.iterations = st.iterations,
                                              !.candidates = st.candidates])
              /\ characterShapeCache' = st.cache
    /\ UNCHANGED <<inputVars, workerVars, appVars, hullVars, isectVars, viewportWidth, viewportHeight,
                   returned, recalc, recalcReturned, scaleCall,
                   collisionCall, overlapCall>>

\* findBestPlacement after its loop: the minimum scale is ensured and the
\* placement returned, to the client or to the loop of recalculateAllPlacements.
SearchReturn ==
    /\ call # Null
    /\ ~(call[1].i < MaxAttempts)
    /\ LET ret == Return(call[1].existingCharacters, call[1].newChar,
                         EnsureMinimumScale(call[1].bestPlacement), call[1].i)
       IN  /\ returned' = Some(ret)
           /\ recalc' = IF recalc = Null THEN Null ELSE Some(Placed(recalc[1], ret))
    /\ call' = Null
    /\ UNCHANGED <<inputVars, workerVars, appVars, hullVars, isectVars, viewportWidth, viewportHeight,
                   characterShapeCache, recalcReturned, scaleCall,
                   collisionCall, overlapCall>>

\* A recalculateAllPlacements without the check for an empty list.
RecalculateAllPlacementsUnguarded ==
    /\ viewportWidth > 0
    /\ call = Null /\ recalc = Null
    /\ \E characters \in CharacterLists :
          /\ recalcReturned' = NotYet
          /\ recalc' = Some([characters |-> characters,
                             composingChars |-> ComposingChars(characters),
                             k |-> 1,
                             result |-> ConfirmedChars(characters),
                             calls |-> <<>>])
    /\ returned' = NotYet
    /\ UNCHANGED <<inputVars, workerVars, appVars, hullVars, isectVars, viewportWidth, viewportHeight,
                   characterShapeCache, call, scaleCall, collisionCall,
                   overlapCall>>

\* A client calls recalculateAllPlacements(characters): an empty list is
\* returned at once; otherwise the confirmed characters are pushed on result.
RecalculateAllPlacements ==
    /\ viewportWidth > 0
    /\ call = Null /\ recalc = Null
    /\ \E characters \in CharacterLists :
          IF Len(characters) = 0
          THEN /\ recalcReturned' = Some([characters |-> characters,
                                          result |-> <<>>, calls |-> <<>>])
               /\ recalc' = Null
          ELSE /\ recalcReturned' = NotYet
               /\ recalc' = Some([characters |-> characters,
                                  composingChars |-> ComposingChars(characters),
                                  k |-> 1,
                                  result |-> ConfirmedChars(characters),
                                  calls |-> <<>>])
    /\ returned' = NotYet
    /\ UNCHANGED <<inputVars, workerVars, appVars, hullVars, isectVars, viewportWidth, viewportHeight,
                   characterShapeCache, call, scaleCall,
                   collisionCall, overlapCall>>

\* recalculateAllPlacements: the loop reaches composingChars[k] and calls
\* calculateOptimalPlacement(result, char.char).
RecalcPlace ==
    /\ recalc # Null /\ call = Null
    /\ recalc[1].k <= Len(recalc[1].composingChars)
    /\ LET r == recalc[1]
           char == r.composingChars[r.k]
       IN  IF Len(r.result) = 0
           THEN LET ret == Return(r.result, char.char,
                               PlaceFirstCharacter(viewportWidth, viewportHeight), 0)
                IN  /\ returned' = Some(ret)
                    /\ recalc' = Some(Placed(r, ret))
                    /\ call' = Null
           ELSE /\ returned' = NotYet
                /\ call' = StartSearch(r.result, char.char)
                /\ recalc' = recalc
    /\ UNCHANGED <<inputVars, workerVars, appVars, hullVars, isectVars, viewportWidth, viewportHeight,
                   characterShapeCache, recalcReturned, scaleCall,
                   collisionCall, overlapCall>>

\* recalculateAllPlacements: the loop is over, result is returned.
RecalcReturn ==
    /\ recalc # Null /\ call = Null
    /\ recalc[1].k > Len(recalc[1].composingChars)
    /\ recalcReturned' = Some([characters |-> recalc[1].characters,
                               result |-> recalc[1].result,
                               calls |-> recalc[1].calls])
    /\ recalc' = Null
    /\ UNCHANGED <<inputVars, workerVars, appVars, hullVars, isectVars, viewportWidth, viewportHeight,
                   characterShapeCache, call, returned, scaleCall,
                   collisionCall, overlapCall>>

(***************************************************************************)
(*           calculateMaxScale applied to bounded poses                    *)
(***************************************************************************)

\* The positions calculateMaxScale is tried at, in pixels.
ScalePositions == RandomPositions \cup {<<60, 60>>, <<80, 100>>, <<150, 150>>}

\* The viewports calculateMaxScale is tried in: those of the search, and one
\* whose smaller side times 0.8 is below the lower end 10 of the bracket.
ScaleViewports == Viewports \cup {<<12, 200>>}

\* new NestingAlgorithm(viewportWidth, viewportHeight, fontMetrics), for one
\* of the given viewports
ScaleInitIn(viewports) ==
    /\ \E v \in viewports : viewportWidth = v[1] /\ viewportHeight = v[2]
    /\ characterShapeCache = {}
    /\ call = Null /\ returned = NotYet
    /\ recalc = Null /\ recalcReturned = NotYet
    /\ scaleCall = NotYet /\ collisionCall = NotYet /\ overlapCall = NotYet

ScaleInit == ScaleInitIn(Viewports)

\* findBestPlacement calls calculateMaxScale(existingCharacters, newChar, x,
\* y, rotation); the bracket the loop ended with is kept with what it returns.
CalculateMaxScaleCall ==
    /\ viewportWidth > 0
    /\ scaleCall = NotYet /\ collisionCall = NotYet /\ overlapCall = NotYet
    /\ \E existingCharacters \in CharacterLists \ {<<>>} : \E newChar \in Glyphs :
       \E position \in {q \in ScalePositions :
                            q[1] <= viewportWidth /\ q[2] <= viewportHeight} :
       \E r \in 0..(RotationSteps - 1) :
       \E st \in {BinarySearch(viewportWidth, viewportHeight, existingCharacters,
                       newChar, position[1] * Unit, position[2] * Unit,
                       (r * 360) \div RotationSteps, 0,
                       [low |-> InitialScale * Unit,
                        high |-> MaxPossibleScale(viewportWidth, viewportHeight),
                        maxScale |-> 0,
                        iterations |-> 0,
                        trace |-> <<>>,
                        cache |-> characterShapeCache])} :
       \E found \in {CalculateMaxScale(characterShapeCache, viewportWidth,
                       viewportHeight, existingCharacters, newChar,
                       position[1] * Unit, position[2] * Unit,
                       (r * 360) \div RotationSteps)} :
          /\ scaleCall' = Some([existingCharacters |-> existingCharacters,
                                newChar |-> newChar,
                                x |-> position[1] * Unit, y |-> position[2] * Unit,
                                rotation |-> (r * 360) \div RotationSteps,
                                low |-> st.low, high |-> st.high,
                                iterations |-> st.iterations,
                                trace |-> st.trace,
                                maxScale |-> found.maxScale])
          /\ characterShapeCache' = found.cache
    /\ UNCHANGED <<inputVars, workerVars, appVars, hullVars, isectVars, viewportWidth, viewportHeight,
                   call, returned, recalc, recalcReturned, collisionCall,
                   overlapCall>>

(***************************************************************************)
(*             checkCollision applied to bounded candidates                *)
(***************************************************************************)

\* The centres checkCollision is tried at, in pixels: inside the viewport,
\* within the margin of an edge, and outside the viewport.
CollisionPositions ==
    RandomPositions
        \cup {<<24, 80>>, <<80, 28>>, <<60, 60>>, <<0 - 10, 80>>, <<100, 0 - 5>>,
              <<250, 80>>, <<100, 250>>}

\* The scales checkCollision is tried at, in pixels.
CollisionScales == {10, 40, 128, 200}

\* calculateMaxScale calls checkCollision(existingCharacters, newChar, x, y,
\* rotation, scale).
CheckCollisionCall ==
    /\ viewportWidth > 0
    /\ collisionCall = NotYet
    /\ \E existingCharacters \in CharacterLists : \E newChar \in Glyphs :
       \E position \in CollisionPositions : \E r \in 0..(RotationSteps - 1) :
       \E scale \in CollisionScales :
       \E hasCollision \in {CheckCollision(characterShapeCache, viewportWidth,
                               viewportHeight, existingCharacters, newChar,
                               position[1] * Unit, position[2] * Unit,
                               (r * 360) \div RotationSteps, scale * Unit)} :
          /\ collisionCall' = Some([existingCharacters |-> existingCharacters,
                                    newChar |-> newChar,
                                    x |-> position[1] * Unit,
                                    y |-> position[2] * Unit,
                                    rotation |-> (r * 360) \div RotationSteps,
                                    scale |-> scale * Unit,
                                    hasCollision |-> hasCollision.collision])
          /\ characterShapeCache' = hasCollision.cache
    /\ UNCHANGED <<inputVars, workerVars, appVars, hullVars, isectVars, viewportWidth,
                   viewportHeight, call, returned, recalc, recalcReturned,
                   scaleCall, overlapCall>>

(***************************************************************************)
(*            charactersOverlap applied to bounded shapes                  *)
(***************************************************************************)

\* The centres of the shapes handed to charactersOverlap, in pixels: pairs of
\* them are 10, 40, 50 and 300 pixels apart, along an axis and diagonally.
OverlapCentres ==
    {<<100, 100>>, <<110, 100>>, <<106, 108>>, <<140, 100>>, <<100, 150>>,
     <<400, 100>>, <<280, 340>>}

\* Their scales, in pixels.
OverlapScales == {30, 50}

OverlapShapes ==
    {[x |-> c[1] * Unit, y |-> c[2] * Unit, scale |-> scale * Unit,
      rotation |-> (r * 360) \div RotationSteps] :
        c \in OverlapCentres, scale \in OverlapScales, r \in 0..(RotationSteps - 1)}

\* charactersOverlap(char1, char2) and charactersOverlap(char2, char1)
CharactersOverlapCall ==
    /\ viewportWidth > 0
    /\ overlapCall = NotYet
    /\ \E char1 \in OverlapShapes : \E char2 \in OverlapShapes :
          overlapCall' = Some([char1 |-> char1, char2 |-> char2,
                               overlap |-> CharactersOverlap(char1, char2),
                               reversed |-> CharactersOverlap(char2, char1)])
    /\ UNCHANGED <<inputVars, workerVars, appVars, hullVars, isectVars, viewportWidth,
                   viewportHeight, characterShapeCache, call, returned, recalc,
                   recalcReturned, scaleCall, collisionCall>>

(***************************************************************************)
(*  TypographicNestingApp (main.ts): the callbacks InputManager is given,  *)
(*  the clearAll listener, destroy, and the calculateLayout calls that     *)
(*  resume after their await.  The callbacks may be called in any order,   *)
(*  also between a calculateLayout call and its resumption.                *)
(***************************************************************************)

\* The number of characters typed in one behaviour.
MaxInputs == 3

\* calculateLayout: the scale of the fallback placement.
FallbackScale == 50

\* What a calculateOptimalPlacement call with existing characters does: the
\* search finds a candidate, it finds none, or it throws; random is the
\* Math.random() * 360 of the fallback placement that follows.
FallbackRandoms == {200}
Outcomes ==
    {[kind |-> "found", random |-> 0], [kind |-> "none", random |-> 0]}
        \cup {[kind |-> "throws", random |-> r] : r \in FallbackRandoms}

\* The characters typed, and the milliseconds Date.now() advances between two
\* of them.
TypedGlyphs == {"A"}
Ticks == {1}

\* The scale of the candidate a search finds.
FoundScales == {40}

\* `${isComposing ? 'composing' : 'confirmed'}-${Date.now()}-${Math.random()}`;
\* no two calls of Math.random() give the same number.
CharacterId(isComposing, timestamp, random) ==
    [prefix |-> IF isComposing THEN "composing" ELSE "confirmed",
     timestamp |-> timestamp, random |-> random]

IdsOf(chars) == {chars[k].id : k \in 1..Len(chars)}

\* The state a handler works on.
AppState ==
    [characters |-> charactersMap,
     pendingCalculations |-> pendingCalculations,
     continuations |-> continuations,
     rendered |-> rendered,
     characterShapeCache |-> characterShapeCache,
     layoutCalls |-> <<>>,
     applications |-> <<>>]

\* nestingAlgorithm.calculateOptimalPlacement(existingCharacters, newChar), on
\* an algorithm constructed with width and height, when it returns: the first
\* placement, a candidate of the search, or the centre pose the search starts
\* from, raised to the minimum scale.
OptimalPlacement(width, height, existingCharacters, outcome) ==
    IF Len(existingCharacters) = 0
    THEN PlaceFirstCharacter(width, height)
    ELSE IF outcome.kind = "found"
    THEN EnsureMinimumScale(
             Candidate((width \div 4) * Unit, (height \div 2) * Unit,
                       360 \div RotationSteps,
                       (CHOOSE scale \in FoundScales : TRUE) * Unit))
    ELSE EnsureMinimumScale(DefaultPlacement(width, height))

\* The shape cache after that call: a search that finds a candidate has
\* analysed the new glyph and those of all existing characters.
ShapesCached(cache, existingCharacters, newChar, outcome) ==
    IF Len(existingCharacters) > 0 /\ outcome.kind = "found"
    THEN cache \cup {newChar}
               \cup {existingCharacters[k].char : k \in 1..Len(existingCharacters)}
    ELSE cache

\* calculateLayout, lines 330-336
FallbackPlacement(random) ==
    [x |-> (innerWidth * Unit) \div 2,
     y |-> (innerHeight * Unit) \div 2,
     rotation |-> random,
     scale |-> FallbackScale * Unit,
     score |-> 0]

\* TypographicRenderer.addOrUpdateCharacter
AddOrUpdateCharacter(shown, character) ==
    IF character.scale <= 0 THEN shown
    ELSE {c \in shown : c.id # character.id} \cup {character}

\* TypographicRenderer.removeCharacter; the element counts as removed when its
\* fade-out starts.
RemoveCharacter(shown, characterId) == {c \in shown : c.id # characterId}

RECURSIVE CalculateLayout(_, _, _, _)
RECURSIVE ApplyLayoutResult(_, _, _, _)
RECURSIVE RecalculateFrom(_, _, _, _)

\* A calculateLayout that does not look at pendingCalculations.
CalculateLayoutUnguarded(S, newCharacter, outcome, rest) ==
    LET existingCharacters ==
            SelectSeq(S.characters, LAMBDA c : c.id # newCharacter.id)
        started ==
            [S EXCEPT !.pendingCalculations = @ \cup {newCharacter.id},
                      !.layoutCalls =
                          Append(@, [characterId |-> newCharacter.id,
                                     ignored |-> FALSE,
                                     viewport |-> <<viewportWidth, viewportHeight>>,
                                     window |-> <<innerWidth, innerHeight>>])]
    IN  IF Len(existingCharacters) > 0 /\ outcome.kind = "throws"
        THEN ApplyLayoutResult(started, newCharacter.id,
                               FallbackPlacement(outcome.random), rest)
        ELSE [started EXCEPT
                 !.characterShapeCache =
                     ShapesCached(@, existingCharacters, newCharacter.char, outcome),
                 !.continuations =
                     Append(@, [characterId |-> newCharacter.id,
                                placement |->
                                    OptimalPlacement(viewportWidth, viewportHeight,
                                                     existingCharacters, outcome)])]

\* calculateLayout(newCharacter) up to its await, or to the end of its catch
\* block when calculateOptimalPlacement throws.  outcome is what this call's
\* calculateOptimalPlacement does, rest what those of the calls made from
\* recalculateComposingCharacters do.
CalculateLayout(S, newCharacter, outcome, rest) ==
    IF newCharacter.id \in S.pendingCalculations
    THEN [S EXCEPT !.layoutCalls =
                       Append(@, [characterId |-> newCharacter.id,
                                  ignored |-> TRUE,
                                  existingCharacters |-> <<>>,
                                  viewport |-> <<viewportWidth, viewportHeight>>,
                                  window |-> <<innerWidth, innerHeight>>])]
    ELSE LET existingCharacters ==
                 SelectSeq(S.characters, LAMBDA c : c.id # newCharacter.id)
             started ==
                 [S EXCEPT !.pendingCalculations = @ \cup {newCharacter.id},
                           !.layoutCalls =
                               Append(@, [characterId |-> newCharacter.id,
                                          ignored |-> FALSE,
                                          existingCharacters |-> existingCharacters,
                                          viewport |-> <<viewportWidth, viewportHeight>>,
                                          window |-> <<innerWidth, innerHeight>>])]
         IN  IF Len(existingCharacters) > 0 /\ outcome.kind = "throws"
             THEN ApplyLayoutResult(started, newCharacter.id,
                                    FallbackPlacement(outcome.random), rest)
             ELSE [started EXCEPT
                      !.characterShapeCache =
                          ShapesCached(@, existingCharacters, newCharacter.char,
                                       outcome),
                      !.continuations =
                          Append(@, [characterId |-> newCharacter.id,
                                     placement |->
                                         OptimalPlacement(viewportWidth,
                                                          viewportHeight,
                                                          existingCharacters,
                                                          outcome)])]

\* An applyLayoutResult that adds a character for an id that is not in the map.
ApplyLayoutResultUpsert(S, characterId, placement, rest) ==
    LET targetCharacter ==
            [id |-> characterId, char |-> "A", x |-> placement.x, y |-> placement.y,
             rotation |-> placement.rotation, scale |-> placement.scale,
             isComposing |-> TRUE]
    IN  [S EXCEPT !.pendingCalculations = @ \ {characterId},
                  !.characters =
                      Append(SelectSeq(@, LAMBDA c : c.id # characterId),
                             targetCharacter),
                  !.rendered = AddOrUpdateCharacter(@, targetCharacter),
                  !.applications =
                      Append(@, [characterId |-> characterId,
                                 placement |-> placement,
                                 discarded |-> FALSE])]

\* applyLayoutResult(characterId, placement)
ApplyLayoutResult(S, characterId, placement, rest) ==
    IF characterId \notin IdsOf(S.characters)
    THEN [S EXCEPT !.applications =
                       Append(@, [characterId |-> characterId,
                                  placement |-> placement,
                                  discarded |-> TRUE])]
    ELSE LET k == CHOOSE i \in 1..Len(S.characters) : S.characters[i].id = characterId
             targetCharacter ==
                 [S.characters[k] EXCEPT !.x = placement.x, !.y = placement.y,
                                         !.rotation = placement.rotation,
                                         !.scale = placement.scale]
             applied ==
                 [S EXCEPT !.pendingCalculations = @ \ {characterId},
                           !.characters[k] = targetCharacter,
                           !.rendered = AddOrUpdateCharacter(@, targetCharacter),
                           !.applications =
                               Append(@, [characterId |-> characterId,
                                          placement |-> placement,
                                          discarded |-> FALSE])]
         IN  IF ~targetCharacter.isComposing
             THEN RecalculateFrom(applied, ComposingChars(applied.characters), 1, rest)
             ELSE applied

\* recalculateComposingCharacters: the loop over composingCharacters from k on
RecalculateFrom(S, composingCharacters, k, rest) ==
    IF k > Len(composingCharacters) THEN S
    ELSE RecalculateFrom(CalculateLayout(S, composingCharacters[k], rest, rest),
                         composingCharacters, k + 1, rest)

\* handleCharacterDelete: the character whose id carries the greatest
\* timestamp, the first of them in the order of the map.
LastCharacterId(chars) ==
    LET latest == CHOOSE t \in {chars[k].id.timestamp : k \in 1..Len(chars)} :
                      \A k \in 1..Len(chars) : chars[k].id.timestamp <= t
        first == CHOOSE k \in 1..Len(chars) :
                     /\ chars[k].id.timestamp = latest
                     /\ \A j \in 1..(k - 1) : chars[j].id.timestamp # latest
    IN  chars[first].id

AppParked ==
    /\ isInitialized = FALSE
    /\ innerWidth = 0 /\ innerHeight = 0
    /\ now = 0 /\ created = 0
    /\ charactersMap = <<>> /\ pendingCalculations = {}
    /\ continuations = <<>> /\ rendered = {}
    /\ layoutCalls = <<>> /\ applications = <<>>

\* new TypographicNestingApp(), up to the await in initializeApp: the
\* algorithm is constructed with the size the window has then.
AppInit ==
    /\ \E v \in Viewports : innerWidth = v[1] /\ innerHeight = v[2]
    /\ viewportWidth = innerWidth /\ viewportHeight = innerHeight
    /\ characterShapeCache = {}
    /\ call = Null /\ returned = NotYet
    /\ recalc = Null /\ recalcReturned = NotYet
    /\ scaleCall = NotYet /\ collisionCall = NotYet /\ overlapCall = NotYet
    /\ isInitialized = FALSE
    /\ now = 1 /\ created = 0
    /\ charactersMap = <<>> /\ pendingCalculations = {}
    /\ continuations = <<>> /\ rendered = {}
    /\ layoutCalls = <<>> /\ applications = <<>>

\* The variables no step of the application or of InputManager changes.
HandlerFrame ==
    UNCHANGED <<hullVars, isectVars, workerVars, viewportWidth, viewportHeight,
                call, returned, recalc, recalcReturned, scaleCall,
                collisionCall, overlapCall>>

\* The variables no step of the application changes.
AppFrame == HandlerFrame /\ UNCHANGED inputVars

\* The state S becomes the state of the application.
Becomes(S) ==
    /\ charactersMap' = S.characters
    /\ pendingCalculations' = S.pendingCalculations
    /\ continuations' = S.continuations
    /\ rendered' = S.rendered
    /\ characterShapeCache' = S.characterShapeCache
    /\ layoutCalls' = S.layoutCalls
    /\ applications' = S.applications

\* initializeApp after loadFonts
FinishInitialization ==
    /\ innerWidth > 0
    /\ ~isInitialized
    /\ isInitialized' = TRUE
    /\ Becomes(AppState)
    /\ UNCHANGED <<innerWidth, innerHeight, now, created>>
    /\ AppFrame

\* The window is resized.
Resize ==
    /\ innerWidth > 0
    /\ \E v \in Viewports :
          /\ v # <<innerWidth, innerHeight>>
          /\ innerWidth' = v[1] /\ innerHeight' = v[2]
    /\ Becomes(AppState)
    /\ UNCHANGED <<isInitialized, now, created>>
    /\ AppFrame

\* handleCharacterInput(char, isComposing); tick is the time that has passed
\* since the last id was made.
HandleCharacterInput ==
    /\ isInitialized
    /\ created < MaxInputs
    /\ \E char \in TypedGlyphs : \E isComposing \in BOOLEAN : \E tick \in Ticks :
       \E outcome \in Outcomes : \E rest \in Outcomes :
          LET characterId == CharacterId(isComposing, now + tick, created + 1)
              newCharacter == CharacterAt(characterId, char, 0, 0, 0, 1, isComposing)
              added == [AppState EXCEPT !.characters = Append(@, newCharacter)]
              first == [newCharacter EXCEPT
                           !.x = (innerWidth * Unit) \div 2,
                           !.y = (innerHeight * Unit) \div 2,
                           !.scale = MaxPossibleScale(innerWidth, innerHeight),
                           !.rotation = 0]
          IN  /\ now' = now + tick
              /\ created' = created + 1
              /\ IF Len(added.characters) = 1
                 THEN Becomes([added EXCEPT
                                  !.characters = <<first>>,
                                  !.rendered = AddOrUpdateCharacter(@, first)])
                 ELSE \E S \in {CalculateLayout(added, newCharacter, outcome, rest)} :
                          Becomes(S)
    /\ UNCHANGED <<isInitialized, innerWidth, innerHeight>>
    /\ AppFrame

\* calculateLayout after its await: the placement is applied.
ResumeCalculateLayout ==
    /\ continuations # <<>>
    /\ \E rest \in Outcomes :
       \E S \in {ApplyLayoutResult([AppState EXCEPT !.continuations = Tail(@)],
                                   Head(continuations).characterId,
                                   Head(continuations).placement, rest)} :
          Becomes(S)
    /\ UNCHANGED <<isInitialized, innerWidth, innerHeight, now, created>>
    /\ AppFrame

\* handleCharacterDelete with a character in the map
HandleCharacterDelete ==
    /\ isInitialized
    /\ Len(charactersMap) > 0
    /\ LET lastCharacterId == LastCharacterId(charactersMap)
       IN  Becomes([AppState EXCEPT
                       !.rendered = RemoveCharacter(@, lastCharacterId),
                       !.characters = SelectSeq(@, LAMBDA c : c.id # lastCharacterId),
                       !.pendingCalculations = @ \ {lastCharacterId}])
    /\ UNCHANGED <<isInitialized, innerWidth, innerHeight, now, created>>
    /\ AppFrame

\* handleCompositionUpdate(state) with state.isComposing false
HandleCompositionUpdate ==
    /\ isInitialized
    /\ Becomes([AppState EXCEPT
                   !.rendered = {c \in @ : ~c.isComposing},
                   !.characters = ConfirmedChars(@),
                   !.pendingCalculations =
                       @ \ IdsOf(ComposingChars(charactersMap))])
    /\ UNCHANGED <<isInitialized, innerWidth, innerHeight, now, created>>
    /\ AppFrame

\* clearAll
ClearAll ==
    /\ innerWidth > 0
    /\ Becomes([AppState EXCEPT !.rendered = {}, !.characters = <<>>,
                                !.pendingCalculations = {}])
    /\ UNCHANGED <<isInitialized, innerWidth, innerHeight, now, created>>
    /\ AppFrame

\* destroy
Destroy ==
    /\ innerWidth > 0
    /\ Becomes([AppState EXCEPT !.rendered = {}, !.characters = <<>>])
    /\ UNCHANGED <<isInitialized, innerWidth, innerHeight, now, created>>
    /\ AppFrame

(***************************************************************************)
(*  InputManager: the listeners of the input element, each with the        *)
(*  callbacks of TypographicNestingApp it calls                            *)
(***************************************************************************)

\* The texts an event carries: the candidate or committed text of the IME, or
\* the value of the input element; " " is a whitespace character.
Texts == {<<>>, <<"A">>, <<"B", "A">>, <<"A", " ">>}

\* The keys of the keydown events.
Keys == {"Escape", "Backspace", "Delete", "F5"}

\* The characters of a text that char.trim() keeps.
NonWhitespace(data) == SelectSeq(data, LAMBDA char : char # " ")

\* The state the callbacks work on during one event: that of the
\* application, with the time of the event, the number of ids made and the
\* callbacks InputManager has called in this event.
InputState ==
    [characters |-> charactersMap,
     pendingCalculations |-> pendingCalculations,
     continuations |-> continuations,
     rendered |-> rendered,
     characterShapeCache |-> characterShapeCache,
     layoutCalls |-> <<>>,
     applications |-> <<>>,
     now |-> now + 1,
     created |-> created,
     calls |-> <<>>]

\* The compositionState of the constructor and of clearComposition.
NoComposition == [text |-> <<>>, isComposing |-> FALSE, characters |-> <<>>]

\* handleCharacterInput(char, isComposing), called as onCharacterAdd
OnCharacterAdd(S, char, isComposing, outcome, rest) ==
    IF ~isInitialized THEN S
    ELSE LET characterId == CharacterId(isComposing, S.now, S.created + 1)
             newCharacter == CharacterAt(characterId, char, 0, 0, 0, 1, isComposing)
             added == [S EXCEPT !.characters = Append(@, newCharacter),
                                !.created = @ + 1]
             first == [newCharacter EXCEPT
                          !.x = (innerWidth * Unit) \div 2,
                          !.y = (innerHeight * Unit) \div 2,
                          !.scale = MaxPossibleScale(innerWidth, innerHeight),
                          !.rotation = 0]
         IN  IF Len(added.characters) = 1
             THEN [added EXCEPT !.characters = <<first>>,
                                !.rendered = AddOrUpdateCharacter(@, first)]
             ELSE CalculateLayout(added, newCharacter, outcome, rest)

\* A handleCompositionUpdate(state) that clears nothing.
OnCompositionUpdateIgnored(S, state) == S

\* handleCompositionUpdate(state), called as onCompositionUpdate
OnCompositionUpdate(S, state) ==
    IF ~isInitialized \/ state.isComposing THEN S
    ELSE [S EXCEPT !.rendered = {c \in @ : ~c.isComposing},
                   !.characters = ConfirmedChars(@),
                   !.pendingCalculations = @ \ IdsOf(ComposingChars(S.characters))]

\* handleCharacterDelete(), called as onCharacterDelete
OnCharacterDelete(S) ==
    IF ~isInitialized \/ Len(S.characters) = 0 THEN S
    ELSE LET lastCharacterId == LastCharacterId(S.characters)
         IN  [S EXCEPT !.rendered = RemoveCharacter(@, lastCharacterId),
                       !.characters = SelectSeq(@, LAMBDA c : c.id # lastCharacterId),
                       !.pendingCalculations = @ \ {lastCharacterId}]

\* this.onCharacterAdd(char, isComposing)
CallCharacterAdd(S, char, isComposing, outcome, rest) ==
    [OnCharacterAdd(S, char, isComposing, outcome, rest) EXCEPT
        !.calls = Append(@, [callback |-> "onCharacterAdd", char |-> char,
                             isComposing |-> isComposing])]

\* this.onCompositionUpdate(state)
CallCompositionUpdate(S, state) ==
    [OnCompositionUpdate(S, state) EXCEPT
        !.calls = Append(@, [callback |-> "onCompositionUpdate", char |-> "",
                             isComposing |-> state.isComposing])]

\* this.onCharacterDelete()
CallCharacterDelete(S) ==
    [OnCharacterDelete(S) EXCEPT
        !.calls = Append(@, [callback |-> "onCharacterDelete", char |-> "",
                             isComposing |-> FALSE])]

\* A loop over the characters of a text that hands every character, whitespace
\* too, to onCharacterAdd.
RECURSIVE AddCharactersUntrimmed(_, _, _, _, _, _)
AddCharactersUntrimmed(S, data, i, isComposing, outcome, rest) ==
    IF i > Len(data) THEN S
    ELSE AddCharactersUntrimmed(
             CallCharacterAdd(S, data[i], isComposing, outcome, rest),
             data, i + 1, isComposing, outcome, rest)

\* The loops over the characters of a text, from the i-th on: every
\* character that is not whitespace is handed to onCharacterAdd.
RECURSIVE AddCharacters(_, _, _, _, _, _)
AddCharacters(S, data, i, isComposing, outcome, rest) ==
    IF i > Len(data) THEN S
    ELSE AddCharacters(IF data[i] # " "
                       THEN CallCharacterAdd(S, data[i], isComposing, outcome, rest)
                       ELSE S,
                       data, i + 1, isComposing, outcome, rest)

\* clearCompositionCharacters
ClearCompositionCharacters(S) == CallCompositionUpdate(S, NoComposition)

\* handleCompositionUpdate: the Character objects pushed on
\* compositionState.characters, with ids `composing-${Date.now()}-${i}`.
CompositionCharacters(data, timestamp) ==
    LET indices == SelectSeq([i \in 1..Len(data) |-> i], LAMBDA i : data[i] # " ")
    IN  [k \in 1..Len(indices) |->
            CharacterAt(CharacterId(TRUE, timestamp, indices[k] - 1),
                        data[indices[k]], 0, 0, 0, 1, TRUE)]

\* No event yet.
NoEvent ==
    [type |-> "none", data |-> <<>>, initialized |-> FALSE, composing |-> FALSE,
     calls |-> <<>>, cleared |-> FALSE, prevented |-> FALSE]

InputParked ==
    /\ compositionState = NoComposition
    /\ imeComposing = FALSE
    /\ escaped = FALSE
    /\ lastEvent = NoEvent

\* new InputManager(...), in initializeComponents
InputInit ==
    /\ compositionState = NoComposition
    /\ imeComposing = FALSE
    /\ escaped = FALSE
    /\ lastEvent = NoEvent

\* The listener of an event of this type and data returns, having left the
\* application in state S: cleared says that it emptied the input element's
\* value, prevented that it called preventDefault.
EventEnds(type, data, S, cleared, prevented) ==
    /\ lastEvent' = [type |-> type, data |-> data,
                     initialized |-> isInitialized,
                     composing |-> compositionState.isComposing,
                     calls |-> S.calls,
                     cleared |-> cleared, prevented |-> prevented]
    /\ Becomes(S)
    /\ created' = S.created
    /\ now' = IF S.created > created THEN S.now ELSE now
    /\ UNCHANGED <<isInitialized, innerWidth, innerHeight>>
    /\ HandlerFrame

\* The event's text is one the bound on the ids made in a behaviour allows.
Typable(data) == created + Len(NonWhitespace(data)) <= MaxInputs

\* The browser sends the next event: the listener of the previous one has
\* returned and the microtasks it queued (the calculateLayout calls resuming
\* after their await) have run.
EventArrives == innerWidth > 0 /\ continuations = <<>>

\* compositionstart
CompositionStart ==
    /\ EventArrives
    /\ ~imeComposing
    /\ imeComposing' = TRUE
    /\ escaped' = FALSE
    /\ compositionState' = [compositionState EXCEPT !.isComposing = TRUE]
    /\ EventEnds("compositionstart", <<>>, InputState, FALSE, FALSE)

\* compositionupdate: handleCompositionUpdate(e.data)
CompositionUpdate ==
    /\ EventArrives
    /\ imeComposing
    /\ \E data \in Texts : \E outcome \in Outcomes :
          /\ Typable(data)
          /\ IF data = <<>>
             THEN /\ compositionState' = compositionState
                  /\ EventEnds("compositionupdate", data, InputState, FALSE, FALSE)
             ELSE LET state == [compositionState EXCEPT
                                   !.text = data,
                                   !.characters =
                                       CompositionCharacters(data, now + 1)]
                  IN  /\ compositionState' = state
                      /\ \E S \in {CallCompositionUpdate(
                                      AddCharacters(
                                          ClearCompositionCharacters(InputState),
                                          data, 1, TRUE, outcome, outcome),
                                      state)} :
                             EventEnds("compositionupdate", data, S, FALSE, FALSE)
    /\ UNCHANGED <<imeComposing, escaped>>

\* compositionend: handleCompositionEnd(e.data)
CompositionEnd ==
    /\ EventArrives
    /\ imeComposing
    /\ imeComposing' = FALSE
    /\ UNCHANGED escaped
    /\ \E data \in Texts : \E outcome \in Outcomes :
          /\ Typable(data)
          /\ compositionState' = NoComposition
          /\ IF data = <<>>
             THEN EventEnds("compositionend", data, InputState, TRUE, FALSE)
             ELSE \E S \in {AddCharacters(ClearCompositionCharacters(InputState),
                                          data, 1, FALSE, outcome, outcome)} :
                      EventEnds("compositionend", data, S, TRUE, FALSE)

\* input, with the value the input element has then
InputEvent ==
    /\ EventArrives
    /\ \E inputValue \in Texts : \E outcome \in Outcomes :
          /\ Typable(inputValue)
          /\ IF ~compositionState.isComposing /\ inputValue # <<>>
             THEN \E S \in {AddCharacters(InputState, inputValue, 1, FALSE,
                                          outcome, outcome)} :
                      EventEnds("input", inputValue, S, TRUE, FALSE)
             ELSE EventEnds("input", inputValue, InputState, FALSE, FALSE)
    /\ UNCHANGED <<compositionState, imeComposing, escaped>>

\* keydown
KeyDown ==
    /\ EventArrives
    /\ \E key \in Keys :
          IF key = "Escape"
          THEN /\ compositionState' = NoComposition
               /\ escaped' = imeComposing
               /\ EventEnds("keydown", <<key>>, InputState, TRUE, FALSE)
          ELSE IF key \in {"Backspace", "Delete"}
          THEN /\ UNCHANGED <<compositionState, escaped>>
               /\ IF ~compositionState.isComposing
                  THEN EventEnds("keydown", <<key>>,
                                 CallCharacterDelete(InputState), FALSE, TRUE)
                  ELSE EventEnds("keydown", <<key>>, InputState, FALSE, FALSE)
          ELSE /\ compositionState' = NoComposition
               /\ UNCHANGED escaped
               /\ EventEnds("keydown", <<key>>,
                            [InputState EXCEPT !.rendered = {},
                                               !.characters = <<>>,
                                               !.pendingCalculations = {}],
                            TRUE, TRUE)
    /\ UNCHANGED imeComposing

(***************************************************************************)
(*              layoutWorker.ts: the worker's message handler              *)
(***************************************************************************)

\* The number of messages the worker is sent in one behaviour.
MaxMessages == 2

\* onmessage: the cap and the factor of the fallback placement's scale.
WorkerFallbackCap == 100

\* The 'calculate' messages the worker is sent.
CalculateMessages ==
    [type : {"calculate"},
     characterId : {CharacterId(FALSE, 1, 1), CharacterId(TRUE, 2, 2)},
     characters : {<<>>, << CharacterAt("c1", "B", 100, 80, 0, 128, FALSE) >>},
     newChar : Glyphs,
     viewportWidth : {v[1] : v \in Viewports},
     viewportHeight : {v[2] : v \in Viewports}]

\* The steps of onmessage that can throw: the construction of the algorithm
\* and calculateOptimalPlacement.
Failures == {"none", "constructor", "calculateOptimalPlacement"}

\* onmessage, lines 57-63
WorkerFallbackPlacement(message, random) ==
    [x |-> (message.viewportWidth * Unit) \div 2,
     y |-> (message.viewportHeight * Unit) \div 2,
     rotation |-> random,
     scale |-> Min2(WorkerFallbackCap * Unit,
                    Min2(message.viewportWidth, message.viewportHeight)
                        * ((Unit * 2) \div 10)),
     score |-> 0]

\* The LayoutResultMessage posted for a message.
ResultMessage(message, placement) ==
    [type |-> "result", characterId |-> message.characterId,
     placement |-> placement, characters |-> message.characters]

WorkerParked == nestingAlgorithm = Null /\ served = <<>>

\* The worker is started; no message has arrived.
WorkerInit == nestingAlgorithm = Null /\ served = <<>>

\* self.onmessage with a 'calculate' message; failure names the step that
\* throws while it is handled, if that step is run.
WorkerOnMessage ==
    /\ Len(served) < MaxMessages
    /\ \E message \in CalculateMessages : \E failure \in Failures :
       \E outcome \in Outcomes : \E random \in FallbackRandoms :
          LET constructs ==
                  \/ nestingAlgorithm = Null
                  \/ nestingAlgorithm[1].viewportWidth # message.viewportWidth
                  \/ nestingAlgorithm[1].viewportHeight # message.viewportHeight
              algorithm ==
                  IF constructs
                  THEN [viewportWidth |-> message.viewportWidth,
                        viewportHeight |-> message.viewportHeight,
                        characterShapeCache |-> {}]
                  ELSE nestingAlgorithm[1]
              throws ==
                  /\ Len(message.characters) > 0
                  /\ \/ failure = "calculateOptimalPlacement"
                     \/ outcome.kind = "throws"
          IN  IF constructs /\ failure = "constructor"
              THEN /\ nestingAlgorithm' = nestingAlgorithm
                   /\ served' = Append(served, [message |-> message,
                                                failure |-> "constructor",
                                                analysed |-> {},
                                                posted |-> <<>>])
              ELSE IF throws
              THEN /\ nestingAlgorithm' = Some(algorithm)
                   /\ served' =
                          Append(served,
                                 [message |-> message,
                                  failure |-> "calculateOptimalPlacement",
                                  analysed |-> {},
                                  posted |-> << ResultMessage(message,
                                                    WorkerFallbackPlacement(message,
                                                                            random)) >>])
              ELSE /\ nestingAlgorithm' =
                          Some([algorithm EXCEPT !.characterShapeCache =
                                    ShapesCached(@, message.characters,
                                                 message.newChar, outcome)])
                   /\ served' =
                          Append(served,
                                 [message |-> message,
                                  failure |-> "none",
                                  analysed |->
                                      ShapesCached(algorithm.characterShapeCache,
                                                   message.characters,
                                                   message.newChar, outcome)
                                          \ algorithm.characterShapeCache,
                                  posted |-> << ResultMessage(message,
                                                    OptimalPlacement(
                                                        algorithm.viewportWidth,
                                                        algorithm.viewportHeight,
                                                        message.characters,
                                                        outcome)) >>])
    /\ UNCHANGED <<hullVars, isectVars, placeVars, appVars, inputVars>>

(***************************************************************************)
(*                            Specifications                               *)
(***************************************************************************)

Init == InputParked /\ PlaceInit /\ HullParked /\ IsectParked /\ AppParked /\ WorkerParked

Next ==
    \/ CalculateOptimalPlacement
    \/ SearchAttempt
    \/ SearchReturn
    \/ RecalculateAllPlacements
    \/ RecalcPlace
    \/ RecalcReturn

Spec == Init /\ [][Next]_vars

\* The loops of findBestPlacement and recalculateAllPlacements are for loops
\* of synchronous code: a pass that can be made is made.
FairSpec ==
    /\ Spec
    /\ WF_vars(SearchAttempt) /\ WF_vars(SearchReturn)
    /\ WF_vars(RecalcPlace) /\ WF_vars(RecalcReturn)

InitHull == InputParked /\ HullInit /\ IsectParked /\ PlaceParked /\ AppParked /\ WorkerParked

NextHull == ComputeHull

SpecHull == InitHull /\ [][NextHull]_vars

InitIntersect == InputParked /\ IsectInit /\ HullParked /\ PlaceParked /\ AppParked /\ WorkerParked

NextIntersect == IntersectAB \/ IntersectBA

SpecIntersect == InitIntersect /\ [][NextIntersect]_vars

InitScale == InputParked /\ ScaleInitIn(ScaleViewports) /\ HullParked /\ IsectParked /\ AppParked /\ WorkerParked

NextScale == CalculateMaxScaleCall

SpecScale == InitScale /\ [][NextScale]_vars

InitTransform == InputParked /\ TransformInit /\ HullParked /\ PlaceParked /\ AppParked /\ WorkerParked

NextTransform == TransformRoundTrip

SpecTransform == InitTransform /\ [][NextTransform]_vars

InitApp == InputParked /\ AppInit /\ HullParked /\ IsectParked /\ WorkerParked

NextApp ==
    \/ FinishInitialization
    \/ Resize
    \/ HandleCharacterInput
    \/ ResumeCalculateLayout
    \/ HandleCharacterDelete
    \/ HandleCompositionUpdate
    \/ ClearAll
    \/ Destroy

SpecApp == InitApp /\ [][NextApp]_vars

\* A calculateLayout call suspended at its await resumes: its continuation is
\* a microtask, and the event loop runs every microtask that is queued.
FairSpecApp == SpecApp /\ WF_vars(ResumeCalculateLayout)

InitWorker == InputParked /\ WorkerInit /\ HullParked /\ IsectParked /\ PlaceParked /\ AppParked

NextWorker == WorkerOnMessage

SpecWorker == InitWorker /\ [][NextWorker]_vars

InitDegenerate ==
    InputParked /\ DegenerateInit /\ HullParked /\ PlaceParked /\ AppParked /\ WorkerParked

NextDegenerate == DegenerateCalls

SpecDegenerate == InitDegenerate /\ [][NextDegenerate]_vars

InitCollision ==
    InputParked /\ ScaleInit /\ HullParked /\ IsectParked /\ AppParked /\ WorkerParked

NextCollision == CheckCollisionCall

SpecCollision == InitCollision /\ [][NextCollision]_vars

InitOverlap ==
    InputParked /\ ScaleInit /\ HullParked /\ IsectParked /\ AppParked /\ WorkerParked

NextOverlap == CharactersOverlapCall

SpecOverlap == InitOverlap /\ [][NextOverlap]_vars

InitInput ==
    AppInit /\ InputInit /\ HullParked /\ IsectParked /\ WorkerParked

NextInput ==
    \/ FinishInitialization
    \/ ResumeCalculateLayout
    \/ CompositionStart
    \/ CompositionUpdate
    \/ CompositionEnd
    \/ InputEvent
    \/ KeyDown

SpecInput == InitInput /\ [][NextInput]_vars

InitPoint == InputParked /\ PointInit /\ HullParked /\ PlaceParked /\ AppParked /\ WorkerParked

NextPoint == PointInPolygonCall

SpecPoint == InitPoint /\ [][NextPoint]_vars

(***************************************************************************)
(*                               Properties                                *)
(***************************************************************************)

\* p lies in the closed convex region bounded by the counter-clockwise vertex
\* sequence H (a single point or a segment when H is degenerate).
InsideOrOn(p, H) ==
    /\ \E k \in 1..Len(H) : H[k].x <= p.x
    /\ \E k \in 1..Len(H) : H[k].x >= p.x
    /\ \E k \in 1..Len(H) : H[k].y <= p.y
    /\ \E k \in 1..Len(H) : H[k].y >= p.y
    /\ \A k \in 1..Len(H) : IsLeft(H[k], H[(k % Len(H)) + 1], p) >= 0

DistinctPoints(points) == {points[k] : k \in 1..Len(points)}

Collinear(points) ==
    \A k \in 1..Len(points) : \A m \in 1..Len(points) :
        IsLeft(points[1], points[k], points[m]) = 0

\* C8: intersect(A, B, offsets of A, offsets of B) and intersect(B, A, offsets
\* of B, offsets of A) return the same boolean.
C8_IntersectSymmetric ==
    (isectAB # NotYet /\ isectBA # NotYet) => isectAB = isectBA

\* C9: every point of an input of at least 3 points lies inside or on the
\* boundary of the polygon calculateConvexHull returns for it.
C9_HullContainsInput ==
    (hullOutput # NotYet /\ Len(hullInput) >= 3) =>
        \A k \in 1..Len(hullInput) : InsideOrOn(hullInput[k], hullOutput[1])

\* C9 witness: a hull with at least three vertices has been computed for an
\* input that has a point strictly inside it (left of every edge of the hull,
\* the last vertex joined to the first).
C9_Witness ==
    /\ hullOutput # NotYet
    /\ Cardinality(DistinctPoints(hullOutput[1])) >= 3
    /\ \E k \in 1..Len(hullInput) :
          LET H == hullOutput[1]
          IN  \A e \in 1..Len(H) :
                 \/ H[e] = H[(e % Len(H)) + 1]
                 \/ IsLeft(H[e], H[(e % Len(H)) + 1], hullInput[k]) > 0

\* C10: for an input of at least 3 distinct points that are not all collinear,
\* every triple of cyclically consecutive vertices of the returned sequence
\* (the wrap-around triples included) has a strictly positive cross product.
C10_HullStrictlyConvex ==
    (/\ hullOutput # NotYet
     /\ Cardinality(DistinctPoints(hullInput)) >= 3
     /\ ~Collinear(hullInput)) =>
        LET H == hullOutput[1]
            n == Len(H)
        IN  \A k \in 1..n :
               IsLeft(H[k], H[(k % n) + 1], H[((k + 1) % n) + 1]) > 0

\* calculateOptimalPlacement has returned from a call with existing characters.
ReturnedForExisting ==
    returned # NotYet /\ Len(returned[1].existingCharacters) > 0

\* The rotation-aware bounding box of a placement, centred on (x, y), lies in
\* the viewport inset by 20 pixels on every side (all lengths doubled).
BoxInsideViewport(placement) ==
    LET w == (placement.scale \div 10) * 7
        h == placement.scale
        cos == Abs(CosMilli(placement.rotation))
        sin == Abs(SinMilli(placement.rotation))
        boxWidth == (w \div 1000) * cos + (h \div 1000) * sin
        boxHeight == (w \div 1000) * sin + (h \div 1000) * cos
    IN  /\ 2 * placement.x - boxWidth >= 2 * 20 * Unit
        /\ 2 * placement.x + boxWidth <= 2 * (viewportWidth - 20) * Unit
        /\ 2 * placement.y - boxHeight >= 2 * 20 * Unit
        /\ 2 * placement.y + boxHeight <= 2 * (viewportHeight - 20) * Unit

\* checkCollision at the pose and scale of what was returned, against the
\* existing characters of the call.
CollidesAt(ret, scale) ==
    CheckCollision(characterShapeCache, viewportWidth, viewportHeight,
                   ret.existingCharacters, ret.newChar, ret.placement.x,
                   ret.placement.y, ret.placement.rotation, scale).collision

\* C1: a call with no existing character returns the centre of the viewport,
\* rotation 0, scale 0.8 * min(viewportWidth, viewportHeight) and score 1.0,
\* and has tried no random position.
C1_FirstPlacement ==
    (returned # NotYet /\ Len(returned[1].existingCharacters) = 0) =>
        /\ 2 * returned[1].placement.x = viewportWidth * Unit
        /\ 2 * returned[1].placement.y = viewportHeight * Unit
        /\ returned[1].placement.rotation = 0
        /\ 10 * returned[1].placement.scale
              = 8 * Min2(viewportWidth, viewportHeight) * Unit
        /\ returned[1].placement.score = Unit
        /\ returned[1].trials = 0

\* C1 witness: a first placement has been returned in the tall viewport, where
\* the width is the smaller side.
C1_Witness ==
    /\ returned # NotYet
    /\ Len(returned[1].existingCharacters) = 0
    /\ viewportWidth < viewportHeight

\* C2: every placement returned for existing characters has a scale of at
\* least 15.
C2_MinimumScale ==
    ReturnedForExisting => returned[1].placement.scale >= 15 * Unit

\* C2 witness: a search in which no trial found a candidate (score 0) has
\* returned.
C2_Witness ==
    /\ ReturnedForExisting
    /\ returned[1].trials = MaxAttempts
    /\ returned[1].placement.score = 0

\* C3: the rotation-aware bounding box of every placement returned for
\* existing characters lies, at the returned scale, within
\* [20, viewportWidth - 20] x [20, viewportHeight - 20].
C3_ResultInsideViewport ==
    ReturnedForExisting => BoxInsideViewport(returned[1].placement)

\* C4 as claimed: checkCollision is false at the pose and scale of every
\* placement returned for existing characters.
C4_ResultCollisionFree ==
    ReturnedForExisting => ~CollidesAt(returned[1], returned[1].placement.scale)

\* C4: when the search found a candidate of scale 15 or more (score >= 15),
\* checkCollision is false at the pose and scale of the placement returned.
C4_FoundPoseCollisionFree ==
    (ReturnedForExisting /\ returned[1].placement.score >= 15 * Unit) =>
        ~CollidesAt(returned[1], returned[1].placement.scale)

\* C4 witness: a placement found by the search (score >= 15) has been returned
\* whose box still fits the viewport two pixels of scale larger, where the
\* glyph collides with an existing character.
C4_Witness ==
    /\ ReturnedForExisting
    /\ returned[1].placement.score >= 15 * Unit
    /\ BoxInsideViewport([returned[1].placement EXCEPT
                              !.scale = returned[1].placement.scale + 2 * Unit])
    /\ CollidesAt(returned[1], returned[1].placement.scale + 2 * Unit)

\* C5 as claimed: the score of every placement returned for existing
\* characters equals its scale.
C5_ScoreEqualsScale ==
    ReturnedForExisting =>
        returned[1].placement.score = returned[1].placement.scale

\* C5: the score is the scale the search found: it equals the returned scale
\* when that is 15 or more as found; when the scale was raised to 15, the
\* score is the smaller scale found, above 10, or 0 when no trial found one.
C5_ScoreIsScaleFound ==
    ReturnedForExisting =>
        IF returned[1].placement.score >= 15 * Unit
        THEN returned[1].placement.scale = returned[1].placement.score
        ELSE /\ returned[1].placement.scale = 15 * Unit
             /\ \/ returned[1].placement.score = 0
                \/ returned[1].placement.score > 10 * Unit

\* C5 witness: a placement has been returned whose scale was raised to 15 from
\* a scale the search found between 10 and 15.
C5_Witness ==
    /\ ReturnedForExisting
    /\ returned[1].placement.score > 10 * Unit
    /\ returned[1].placement.score < 15 * Unit

\* The characters of a list that are composing, and those that are not.
Composing(characters) == SelectSeq(characters, LAMBDA c : c.isComposing)

Confirmed(characters) == SelectSeq(characters, LAMBDA c : ~c.isComposing)

\* The k-th composing character of the input at the pose placed for it.
Replaced(rr, k) ==
    [Composing(rr.characters)[k] EXCEPT
        !.x = rr.calls[k].placement.x, !.y = rr.calls[k].placement.y,
        !.rotation = rr.calls[k].placement.rotation,
        !.scale = rr.calls[k].placement.scale]

\* C6: every confirmed character of the input of recalculateAllPlacements is
\* in the output with the x, y, rotation and scale it came with.
C6_ConfirmedKeepPose ==
    recalcReturned # NotYet =>
        \A i \in 1..Len(recalcReturned[1].characters) :
            LET c == recalcReturned[1].characters[i]
            IN  ~c.isComposing =>
                    \E j \in 1..Len(recalcReturned[1].result) :
                        LET d == recalcReturned[1].result[j]
                        IN  /\ d.id = c.id /\ ~d.isComposing
                            /\ d.x = c.x /\ d.y = c.y
                            /\ d.rotation = c.rotation /\ d.scale = c.scale

\* C6 witness: recalculateAllPlacements has returned for an input with a
\* confirmed character and a composing one that it moved.
C6_Witness ==
    /\ recalcReturned # NotYet
    /\ Len(Confirmed(recalcReturned[1].characters)) > 0
    /\ \E k \in 1..Len(recalcReturned[1].calls) :
          Replaced(recalcReturned[1], k) # Composing(recalcReturned[1].characters)[k]

\* C7: recalculateAllPlacements asks for one placement per composing
\* character, in input order; the k-th is asked for against the confirmed
\* characters followed by the first k-1 composing ones at the poses placed for
\* them; with no confirmed character the first is the first placement.
C7_ComposingPlacedInOrder ==
    recalcReturned # NotYet =>
        LET rr == recalcReturned[1]
            composing == Composing(rr.characters)
        IN  /\ Len(rr.calls) = Len(composing)
            /\ \A k \in 1..Len(rr.calls) :
                  /\ rr.calls[k].newChar = composing[k].char
                  /\ rr.calls[k].existingCharacters
                        = Confirmed(rr.characters)
                             \o [j \in 1..(k - 1) |-> Replaced(rr, j)]
            /\ (Len(Confirmed(rr.characters)) = 0 /\ Len(composing) > 0) =>
                  /\ rr.calls[1].trials = 0
                  /\ 2 * rr.calls[1].placement.x = viewportWidth * Unit
                  /\ 2 * rr.calls[1].placement.y = viewportHeight * Unit
                  /\ rr.calls[1].placement.rotation = 0
                  /\ rr.calls[1].placement.score = Unit

\* C7 witness: recalculateAllPlacements has returned for an input with a
\* confirmed character and two composing ones, the first of which it moved.
C7_Witness ==
    /\ recalcReturned # NotYet
    /\ Len(Confirmed(recalcReturned[1].characters)) > 0
    /\ Len(recalcReturned[1].calls) >= 2
    /\ Replaced(recalcReturned[1], 1) # Composing(recalcReturned[1].characters)[1]

\* The polygon moved by an offset.
Moved(polygon, off) ==
    [k \in 1..Len(polygon) |-> Pt(polygon[k].x + off.x, polygon[k].y + off.y)]

\* p lies on the closed segment from a to b.
OnClosedSegment(a, b, p) ==
    /\ IsLeft(a, b, p) = 0
    /\ Min2(a.x, b.x) <= p.x /\ p.x <= Max2(a.x, b.x)
    /\ Min2(a.y, b.y) <= p.y /\ p.y <= Max2(a.y, b.y)

\* p is a vertex of the polygon or lies on one of its edges, the edge from
\* the last vertex to the first included.
OnBoundary(p, polygon) ==
    \E k \in 1..Len(polygon) :
        OnClosedSegment(polygon[k], polygon[(k % Len(polygon)) + 1], p)

\* C11: pointInPolygon returns null for every point that is a vertex of the
\* polygon moved by the offsets or lies on one of its edges.
C11_BoundaryIsIndeterminate ==
    (pip # NotYet /\ OnBoundary(pip[1].point, Moved(polyA, offA))) =>
        pip[1].result = Null

\* C11 witness: pointInPolygon has been called for a point inside a slanted
\* edge of a polygon of at least 3 points, no vertex of it.
C11_Witness ==
    /\ pip # NotYet
    /\ Len(polyA) >= 3
    /\ \A k \in 1..Len(polyA) : Moved(polyA, offA)[k] # pip[1].point
    /\ \E k \in 1..Len(polyA) :
          LET a == Moved(polyA, offA)[k]
              b == Moved(polyA, offA)[(k % Len(polyA)) + 1]
          IN  a.x # b.x /\ a.y # b.y /\ OnClosedSegment(a, b, pip[1].point)

\* checkCollision at the pose of a calculateMaxScale call, at a given scale.
ScaleCollides(sc, scale) ==
    CheckCollision(characterShapeCache, viewportWidth, viewportHeight,
                   sc.existingCharacters, sc.newChar, sc.x, sc.y, sc.rotation,
                   scale).collision

C13_RoundTripReproduces ==
    roundTrip # NotYet => roundTrip[1].back = polyA

\* C13: the round trip keeps the number and order of the vertices and moves
\* every vertex by the same displacement; it reproduces the polygon when the
\* translation is zero, and when the rotation is 0 and the scale is 1.
C13_RoundTripUpToTranslation ==
    roundTrip # NotYet =>
        LET t == roundTrip[1].transform
            back == roundTrip[1].back
        IN  /\ Len(back) = Len(polyA)
            /\ \A i \in 1..Len(polyA) :
                  /\ back[i].x - polyA[i].x = back[1].x - polyA[1].x
                  /\ back[i].y - polyA[i].y = back[1].y - polyA[1].y
            /\ (t.x = 0 /\ t.y = 0) => back = polyA
            /\ (t.rotation = 0 /\ t.scale = Unit) => back = polyA

\* C13 witness: a round trip with a quarter turn and a scale of 2 and no
\* translation has reproduced a polygon that the transform had changed.
C13_Witness ==
    /\ roundTrip # NotYet
    /\ roundTrip[1].transform.x = 0 /\ roundTrip[1].transform.y = 0
    /\ roundTrip[1].transform.rotation = 90
    /\ roundTrip[1].transform.scale = 2 * Unit
    /\ roundTrip[1].forth # polyA
    /\ roundTrip[1].back = polyA

\* The vertices of polygon are all on the left of, or on, the line from a to
\* b (side = 1), or all on the right of it or on it (side = -1).
AllOnSide(polygon, a, b, side) ==
    \A k \in 1..Len(polygon) : side * IsLeft(a, b, polygon[k]) >= 0

\* The interiors of the convex polygons A and B are disjoint: the line through
\* an edge of one of them (the closing edge included) has A on one side and B
\* on the other.
SeparatedByEdgeOf(A, B) ==
    \E k \in 1..Len(A) :
        LET a == A[k]
            b == A[(k % Len(A)) + 1]
        IN  /\ a # b
            /\ \/ AllOnSide(A, a, b, 1) /\ AllOnSide(B, a, b, -1)
               \/ AllOnSide(A, a, b, -1) /\ AllOnSide(B, a, b, 1)

InteriorsDisjoint(A, B) == SeparatedByEdgeOf(A, B) \/ SeparatedByEdgeOf(B, A)

\* A and B touch: a vertex of one lies on the boundary of the other.
Touching(A, B) ==
    \/ \E k \in 1..Len(B) : OnBoundary(B[k], A)
    \/ \E k \in 1..Len(A) : OnBoundary(A[k], B)

\* C14: intersect(A, B) is false for polygons that touch and whose interiors
\* are disjoint.
C14_TouchingNotIntersecting ==
    (/\ isectAB # NotYet
     /\ Touching(Moved(polyA, offA), Moved(polyB, offB))
     /\ InteriorsDisjoint(Moved(polyA, offA), Moved(polyB, offB))) =>
        isectAB[1] = FALSE

\* The segments from a to b and from c to d cross at a point inside both.
ProperCross(a, b, c, d) ==
    /\ IsLeft(a, b, c) * IsLeft(a, b, d) < 0
    /\ IsLeft(c, d, a) * IsLeft(c, d, b) < 0

\* The edge of polygon that starts at its vertex k, the closing edge from the
\* last vertex to the first included.
EdgeFrom(polygon, k) == <<polygon[k], polygon[(k % Len(polygon)) + 1]>>

\* The boundaries of A and B cross, and only where the closing edge of one of
\* them is involved.
CrossOnlyOnClosingEdge(A, B) ==
    /\ \E i \in 1..Len(A) : \E j \in 1..Len(B) :
          ProperCross(EdgeFrom(A, i)[1], EdgeFrom(A, i)[2],
                      EdgeFrom(B, j)[1], EdgeFrom(B, j)[2])
    /\ \A i \in 1..(Len(A) - 1) : \A j \in 1..(Len(B) - 1) :
          \A p \in {A[i], A[i + 1]} : \A q \in {B[j], B[j + 1]} :
              /\ ~ProperCross(A[i], A[i + 1], B[j], B[j + 1])
              /\ ~OnClosedSegment(A[i], A[i + 1], q)
              /\ ~OnClosedSegment(B[j], B[j + 1], p)

\* C15: intersect(A, B) is true for polygons given without a repeated closing
\* vertex whose boundaries cross only on a closing edge.
C15_ClosingEdgeExamined ==
    (/\ isectAB # NotYet
     /\ polyA[1] # polyA[Len(polyA)]
     /\ polyB[1] # polyB[Len(polyB)]
     /\ CrossOnlyOnClosingEdge(Moved(polyA, offA), Moved(polyB, offB))) =>
        isectAB[1] = TRUE

\* The positions in continuations of the calculateLayout calls for an id.
InFlight(characterId) ==
    {k \in 1..Len(continuations) : continuations[k].characterId = characterId}

\* C16: no two suspended calculateLayout calls are for the same character id,
\* and a calculateLayout call made while its id was in pendingCalculations
\* left the one computation for that id in flight.
C16_OneComputationPerId ==
    /\ \A k \in 1..Len(continuations) :
          InFlight(continuations[k].characterId) = {k}
    /\ \A k \in 1..Len(layoutCalls) :
          layoutCalls[k].ignored =>
              /\ Cardinality(InFlight(layoutCalls[k].characterId)) = 1
              /\ \A j \in 1..Len(applications) :
                    applications[j].characterId # layoutCalls[k].characterId

\* C16 witness: a calculateLayout call for an id with a computation in flight
\* has been ignored.
C16_Witness ==
    \E k \in 1..Len(layoutCalls) :
        /\ layoutCalls[k].ignored
        /\ layoutCalls[k].characterId \in pendingCalculations
        /\ InFlight(layoutCalls[k].characterId) # {}

\* C18: when a calculateLayout call resumes for an id that is not in the
\* character map, the map, the poses in it and what the renderer shows stay as
\* they are.
C18_StaleResultDiscarded ==
    [][(/\ ResumeCalculateLayout
        /\ Head(continuations).characterId \notin IdsOf(charactersMap))
           => (charactersMap' = charactersMap /\ rendered' = rendered)]_vars

\* C18 witness: a placement has been discarded while other characters were in
\* the map and shown.
C18_Witness ==
    /\ Len(applications) = 1
    /\ applications[1].discarded
    /\ Len(charactersMap) > 1
    /\ rendered # {}

\* The ids handleCharacterInput can make.
AllCharacterIds ==
    {CharacterId(isComposing, n + 1, n) : isComposing \in BOOLEAN, n \in 1..MaxInputs}

\* C19: pendingCalculations is always a subset of the ids in the character
\* map, and every id in pendingCalculations is eventually removed from it.
C19_NoStuckPending ==
    /\ [](pendingCalculations \subseteq IdsOf(charactersMap))
    /\ \A characterId \in AllCharacterIds :
          (characterId \in pendingCalculations)
              ~> (characterId \notin pendingCalculations)

\* C20: every calculateLayout call that starts a computation runs it on an
\* algorithm whose viewport is the size the window has at the call.
C20_ViewportCurrent ==
    \A k \in 1..Len(layoutCalls) :
        ~layoutCalls[k].ignored => layoutCalls[k].viewport = layoutCalls[k].window

\* A message the worker posted is the fallback response to message: the
\* centre of the message's viewport, a rotation in [0, 360), the fallback
\* scale and score 0.
IsFallbackResponse(response, message) ==
    /\ response.type = "result"
    /\ response.characterId = message.characterId
    /\ response.placement.x = (message.viewportWidth * Unit) \div 2
    /\ response.placement.y = (message.viewportHeight * Unit) \div 2
    /\ response.placement.rotation \in 0..359
    /\ response.placement.scale =
           WorkerFallbackPlacement(message, 0).scale
    /\ response.placement.score = 0

\* C17: the worker posts exactly one response for every message it handles,
\* and when a step threw while it handled the message, that response is the
\* fallback placement.
C17_FailureYieldsFallback ==
    \A k \in 1..Len(served) :
        /\ Len(served[k].posted) = 1
        /\ served[k].failure # "none" =>
               IsFallbackResponse(served[k].posted[1], served[k].message)

\* C21: no glyph is analysed twice: the glyphs whose shape analyzeCharacterShape
\* produced while the worker handled one message are not analysed again while
\* it handles a later one.
C21_ShapeAnalysedOnce ==
    \A j \in 1..Len(served) : \A k \in 1..Len(served) :
        j < k => served[j].analysed \cap served[k].analysed = {}

C23_DegenerateSentinels ==
    degenerate # NotYet =>
        /\ degenerate[1].getPolygonBounds = Null
        /\ degenerate[1].pointInPolygon = Null
        /\ degenerate[1].intersect = FALSE
        /\ degenerate[1].intersectBA = FALSE
        /\ degenerate[1].checkPolygonCollision = FALSE
        /\ degenerate[1].calculateConvexHull = polyA
        /\ degenerate[1].calculateHullArea = 0

\* The candidate of the last checkCollision call, as a pose.
CollisionCandidate ==
    [x |-> collisionCall[1].x, y |-> collisionCall[1].y,
     rotation |-> collisionCall[1].rotation, scale |-> collisionCall[1].scale]

\* C24: checkCollision returns true for every candidate whose rotation-aware
\* bounding box is not inside the viewport inset by 20 pixels, whatever the
\* existing characters are, and false for every candidate inside it when there
\* is no existing character.
C24_BoundaryDecides ==
    collisionCall # NotYet =>
        /\ ~BoxInsideViewport(CollisionCandidate) => collisionCall[1].hasCollision
        /\ (BoxInsideViewport(CollisionCandidate)
               /\ Len(collisionCall[1].existingCharacters) = 0)
              => ~collisionCall[1].hasCollision

\* C24 witness: checkCollision has returned true for a candidate centred
\* outside the viewport, with an existing character far from it.
C24_Witness ==
    /\ collisionCall # NotYet
    /\ collisionCall[1].x > viewportWidth * Unit
    /\ Len(collisionCall[1].existingCharacters) = 1
    /\ collisionCall[1].hasCollision

\* The square of the distance, in pixels, between the centres of the last
\* charactersOverlap call.
OverlapDistance2 ==
    LET dx == (overlapCall[1].char1.x - overlapCall[1].char2.x) \div Unit
        dy == (overlapCall[1].char1.y - overlapCall[1].char2.y) \div Unit
    IN  dx * dx + dy * dy

\* Both shapes of the last charactersOverlap call have scale 50.
BothOfScale50 ==
    /\ overlapCall[1].char1.scale = 50 * Unit
    /\ overlapCall[1].char2.scale = 50 * Unit

\* C25: charactersOverlap is symmetric; two shapes of scale 50 do not overlap
\* when their centres are 300 pixels apart and overlap when they are 10
\* pixels apart, at every pair of rotations; and for shapes rotated by
\* multiples of 90 degrees, whose radius is half their scale, it is true
\* exactly when the distance is less than 0.9 * (scale1 + scale2) / 2.
C25_OverlapByDistance ==
    overlapCall # NotYet =>
        /\ overlapCall[1].overlap = overlapCall[1].reversed
        /\ (BothOfScale50 /\ OverlapDistance2 = 300 * 300) => ~overlapCall[1].overlap
        /\ (BothOfScale50 /\ OverlapDistance2 = 10 * 10) => overlapCall[1].overlap
        /\ (overlapCall[1].char1.rotation % 90 = 0
               /\ overlapCall[1].char2.rotation % 90 = 0)
              => LET scales == (overlapCall[1].char1.scale
                                   + overlapCall[1].char2.scale) \div Unit
                 IN  overlapCall[1].overlap
                         <=> (400 * OverlapDistance2 < 81 * scales * scales)

\* C25 witness: two shapes of scale 50 at different rotations, one of them
\* diagonal, with centres 10 pixels apart diagonally, overlap.
C25_Witness ==
    /\ overlapCall # NotYet
    /\ BothOfScale50
    /\ OverlapDistance2 = 10 * 10
    /\ overlapCall[1].char1.x # overlapCall[1].char2.x
    /\ overlapCall[1].char1.y # overlapCall[1].char2.y
    /\ overlapCall[1].char1.rotation = 45
    /\ overlapCall[1].char2.rotation = 0
    /\ overlapCall[1].overlap

C27_EmptyListReturnsEmpty ==
    /\ recalc # Null => Len(recalc[1].characters) > 0
    /\ (recalcReturned # NotYet /\ Len(recalcReturned[1].characters) = 0) =>
           /\ recalcReturned[1].result = <<>>
           /\ recalcReturned[1].calls = <<>>
           /\ call = Null
           /\ returned = NotYet

\* C27 witness: recalculateAllPlacements has returned for an empty list.
C27_Witness ==
    /\ recalcReturned # NotYet
    /\ Len(recalcReturned[1].characters) = 0
    /\ Len(recalcReturned[1].result) = 0

\* C28: the characters handed to calculateOptimalPlacement and to
\* recalculateAllPlacements are left as they were given: no step of a running
\* call changes the list or a field of one of its characters, and the call
\* returns with the list it was given.
C28_InputsReadOnly ==
    [][/\ (call # Null /\ call' # Null) =>
              call'[1].existingCharacters = call[1].existingCharacters
       /\ (call # Null /\ call' = Null) =>
              returned'[1].existingCharacters = call[1].existingCharacters
       /\ (recalc # Null /\ recalc' # Null) =>
              recalc'[1].characters = recalc[1].characters
       /\ (recalc # Null /\ recalc' = Null) =>
              recalcReturned'[1].characters = recalc[1].characters]_vars

\* C28 witness: recalculateAllPlacements has returned a list in which a
\* composing character has a new pose, for a list that began with a
\* confirmed character.
C28_Witness ==
    /\ recalcReturned # NotYet
    /\ Len(recalcReturned[1].calls) > 0
    /\ ~recalcReturned[1].characters[1].isComposing
    /\ recalcReturned[1].result # recalcReturned[1].characters

\* The glyphs of a list of characters, in order.
CharsOf(chars) == [k \in 1..Len(chars) |-> chars[k].char]

\* The last n elements of a sequence.
LastOf(seq, n) == SubSeq(seq, Len(seq) - n + 1, Len(seq))

\* C29: after a compositionend or an Escape keydown sent to an initialized
\* application, the application holds no composing character, InputManager is
\* not composing, and the characters of the committed text that are not
\* whitespace are the last confirmed characters, in order.
C29_CompositionOverClearsComposing ==
    (/\ lastEvent.initialized
     /\ \/ lastEvent.type = "compositionend"
        \/ (lastEvent.type = "keydown" /\ lastEvent.data = <<"Escape">>)) =>
        /\ ComposingChars(charactersMap) = <<>>
        /\ ~compositionState.isComposing
        /\ lastEvent.type = "compositionend" =>
               LET committed == NonWhitespace(lastEvent.data)
                   confirmed == CharsOf(ConfirmedChars(charactersMap))
               IN  /\ Len(confirmed) >= Len(committed)
                   /\ LastOf(confirmed, Len(committed)) = committed

\* C30: after a compositionupdate with a text that is not empty, sent to an
\* initialized application, the composing characters of the application are
\* the characters of that text that are not whitespace, in order.
C30_LatestCandidateShown ==
    (/\ lastEvent.initialized
     /\ lastEvent.type = "compositionupdate"
     /\ lastEvent.data # <<>>) =>
        CharsOf(ComposingChars(charactersMap)) = NonWhitespace(lastEvent.data)

\* The onCharacterDelete calls of the last event.
DeleteCalls == SelectSeq(lastEvent.calls, LAMBDA c : c.callback = "onCharacterDelete")

\* The last event was a Backspace or Delete keydown.
DeleteKeyDown ==
    lastEvent.type = "keydown" /\ lastEvent.data \in {<<"Backspace">>, <<"Delete">>}

\* C31: a Backspace or Delete keydown that comes while no composition is open
\* calls onCharacterDelete exactly once and prevents the default action; one
\* that comes between a compositionstart and the end of that composition (its
\* compositionend, or an Escape) calls neither.
C31_DeleteOnlyOutsideComposition ==
    DeleteKeyDown =>
        /\ ~imeComposing => (Len(DeleteCalls) = 1 /\ lastEvent.prevented)
        /\ (imeComposing /\ ~escaped) =>
               (Len(DeleteCalls) = 0 /\ ~lastEvent.prevented)

\* The calls onCharacterAdd(char, false) for the characters of a text.
ConfirmedCalls(text) ==
    [k \in 1..Len(text) |->
        [callback |-> "onCharacterAdd", char |-> text[k], isComposing |-> FALSE]]

\* C32: an input event that comes while InputManager is not composing hands
\* each character of the input value that is not whitespace to
\* onCharacterAdd(char, false), once and in the order of the text, calls
\* nothing else and leaves the input value empty; one that comes while it is
\* composing calls nothing.
C32_InputDeliversCharacters ==
    lastEvent.type = "input" =>
        IF lastEvent.composing
        THEN lastEvent.calls = <<>>
        ELSE /\ lastEvent.calls = ConfirmedCalls(NonWhitespace(lastEvent.data))
             /\ lastEvent.cleared \/ lastEvent.data = <<>>

\* C32 witness: an input event with the value "A " has come while not
\* composing, and its listener emptied the value.
C32_Witness ==
    /\ lastEvent.type = "input"
    /\ ~lastEvent.composing
    /\ lastEvent.data = <<"A", " ">>
    /\ lastEvent.cleared
    /\ Len(lastEvent.calls) = 1

\* C33: a Backspace or Delete keydown that calls handleCharacterDelete on an
\* initialized application with a character in its map removes exactly the
\* character added last from the map and from pendingCalculations, also when
\* several ids carry the same timestamp.
C33_DeleteRemovesLastAdded ==
    [][(/\ isInitialized
        /\ continuations = <<>>
        /\ Len(charactersMap) > 0
        /\ DeleteKeyDown'
        /\ Len(DeleteCalls') = 1) =>
           /\ charactersMap' = SubSeq(charactersMap, 1, Len(charactersMap) - 1)
           /\ pendingCalculations' =
                  pendingCalculations \ {charactersMap[Len(charactersMap)].id}]_vars

\* The bracket iteration k of a calculateMaxScale call leaves.
BracketAfter(sc, k) ==
    IF sc.trace[k].hasCollision
    THEN [low |-> sc.trace[k].low, high |-> sc.trace[k].mid]
    ELSE [low |-> sc.trace[k].mid, high |-> sc.trace[k].high]

\* The iterations of a calculateMaxScale call whose midpoint did not collide.
CollisionFree(sc) == {k \in 1..Len(sc.trace) : ~sc.trace[k].hasCollision}

\* The search of a calculateMaxScale call starts with the bracket from 10 to
\* 0.8 * min(width, height); every iteration tests the midpoint of its bracket
\* with checkCollision at the pose of the call and moves high to it on a
\* collision, low otherwise; the loop goes on while the bracket is 2 wide or
\* more and stops after 15 iterations at most; the result is 0 when every
\* midpoint collided, and otherwise the last midpoint that did not, which is
\* the low the search ends with.
BracketingSearch(sc) ==
    LET n == Len(sc.trace)
    IN  /\ n = sc.iterations /\ n >= 1 /\ n <= MaxIterations
        /\ sc.trace[1].low = InitialScale * Unit
        /\ sc.trace[1].high = MaxPossibleScale(viewportWidth, viewportHeight)
        /\ \A k \in 1..n :
              /\ 2 * sc.trace[k].mid = sc.trace[k].low + sc.trace[k].high
              /\ sc.trace[k].hasCollision = ScaleCollides(sc, sc.trace[k].mid)
        /\ \A k \in 1..(n - 1) :
              /\ sc.trace[k + 1].low = BracketAfter(sc, k).low
              /\ sc.trace[k + 1].high = BracketAfter(sc, k).high
              /\ BracketAfter(sc, k).high - BracketAfter(sc, k).low
                     >= BracketWidth * Unit
        /\ sc.low = BracketAfter(sc, n).low /\ sc.high = BracketAfter(sc, n).high
        /\ n = MaxIterations \/ sc.high - sc.low < BracketWidth * Unit
        /\ IF CollisionFree(sc) = {}
           THEN sc.maxScale = 0
           ELSE /\ \E k \in CollisionFree(sc) :
                      /\ \A j \in CollisionFree(sc) : j <= k
                      /\ sc.maxScale = sc.trace[k].mid
                /\ sc.maxScale = sc.low

\* low <= high in every bracket of a calculateMaxScale call.
BracketOrdered(sc) ==
    /\ \A k \in 1..Len(sc.trace) : sc.trace[k].low <= sc.trace[k].high
    /\ sc.low <= sc.high

\* C34 as claimed: calculateMaxScale is the bracketing search described, and
\* low <= high holds throughout, in every viewport.
C34_BracketingSearch ==
    scaleCall # NotYet =>
        BracketingSearch(scaleCall[1]) /\ BracketOrdered(scaleCall[1])

\* C34 amended: calculateMaxScale is the bracketing search described; low <=
\* high holds throughout when 0.8 * min(width, height) is 10 or more, and in a
\* smaller viewport the bracket starts with high < low, one midpoint is tested
\* and the result is 0.
C34_BracketingSearchInRange ==
    scaleCall # NotYet =>
        /\ BracketingSearch(scaleCall[1])
        /\ IF InitialScale * Unit <= MaxPossibleScale(viewportWidth, viewportHeight)
           THEN BracketOrdered(scaleCall[1])
           ELSE scaleCall[1].iterations = 1 /\ scaleCall[1].maxScale = 0

\* C34 witness: a calculateMaxScale call has tested at least three midpoints,
\* one that collided and a later one that did not, and returned the latter.
C34_Witness ==
    /\ scaleCall # NotYet
    /\ Len(scaleCall[1].trace) >= 3
    /\ \E j, k \in 1..Len(scaleCall[1].trace) :
          /\ j < k
          /\ scaleCall[1].trace[j].hasCollision
          /\ ~scaleCall[1].trace[k].hasCollision
          /\ scaleCall[1].maxScale = scaleCall[1].trace[k].mid

\* The index of the first of the candidates whose scale is the greatest.
FirstGreatest(candidates) ==
    CHOOSE k \in 1..Len(candidates) :
        /\ \A j \in 1..Len(candidates) : candidates[j].scale <= candidates[k].scale
        /\ \A j \in 1..(k - 1) : candidates[j].scale < candidates[k].scale

\* The same pose.
SamePose(p, q) == p.x = q.x /\ p.y = q.y /\ p.rotation = q.rotation

StrictlyInside(P, offP, Q, offQ) ==
    \A k \in 1..Len(P) :
        PointInPolygon(Moved(P, offP)[k], Q, offQ.x, offQ.y) = Some(TRUE)

\* C36: intersect(A, B) is true when one of the two polygons lies strictly
\* inside the other.
C36_ContainmentIntersects ==
    (/\ isectAB # NotYet
     /\ \/ StrictlyInside(polyB, offB, polyA, offA)
        \/ StrictlyInside(polyA, offA, polyB, offB)) =>
        isectAB = Some(TRUE)

\* C38: intersect(A, B) with offsets gives what intersect gives, with offsets
\* 0, for A moved by A's offset and B moved by B's offset.
C38_OffsetsAreTranslations ==
    isectAB # NotYet =>
        isectAB = Some(Intersect(Moved(polyA, offA), Moved(polyB, offB), 0, 0, 0, 0))

\* A character with the pose handleCharacterInput creates it with, which it
\* keeps until a layout result is applied to it.
Placeholder(c) == c.x = 0 /\ c.y = 0 /\ c.scale = Unit

\* C37: no calculateLayout call of an event hands calculateOptimalPlacement an
\* existing character that still has its placeholder pose.
C37_ObstaclesArePlaced ==
    \A k \in 1..Len(layoutCalls) :
        \A j \in 1..Len(layoutCalls[k].existingCharacters) :
            ~Placeholder(layoutCalls[k].existingCharacters[j])

\* The polygon checkCollision hands to checkPathCollision for the new glyph
\* of a call, transformed to the pose of the call, in whole pixels.
CandidatePolygon(cc) ==
    TransformPolygon(AnalyzeCharacterShape(cc.newChar).polygonApproximation,
                     [x |-> cc.x, y |-> cc.y, rotation |-> cc.rotation,
                      scale |-> cc.scale \div 100])

\* The pixel p lies in the box of the viewport check of a call, the box of
\* rotatedWidth by rotatedHeight centred on (x, y), or within a pixel of it
\* (the polygon is rounded to whole pixels).
InCandidateBox(cc, p) ==
    LET charDimensions == GetCharacterDimensions(cc.scale)
        cos == Abs(CosMilli(cc.rotation))
        sin == Abs(SinMilli(cc.rotation))
        rotatedWidth == (charDimensions.width \div 1000) * cos
                            + (charDimensions.height \div 1000) * sin
        rotatedHeight == (charDimensions.width \div 1000) * sin
                            + (charDimensions.height \div 1000) * cos
    IN  /\ 2 * Abs(p.x * Unit - cc.x) <= rotatedWidth + 2 * Unit
        /\ 2 * Abs(p.y * Unit - cc.y) <= rotatedHeight + 2 * Unit

\* C39: when the pose of a checkCollision call passes the viewport check,
\* every vertex of the new glyph's hull, transformed to that pose, lies in the
\* box centred on (x, y) that the check used.
C39_PolygonInsideCheckedBox ==
    (/\ collisionCall # NotYet
     /\ ~OutOfBounds(viewportWidth, viewportHeight, collisionCall[1].x,
                     collisionCall[1].y, collisionCall[1].rotation,
                     collisionCall[1].scale)) =>
        \A k \in 1..Len(CandidatePolygon(collisionCall[1])) :
            InCandidateBox(collisionCall[1], CandidatePolygon(collisionCall[1])[k])

=============================================================================
